---- MODULE Spec2Model ----
(***************************************************************************)
(* Toolbar heatmap logic (frontend/src/toolbar/elements/heatmapLogic.ts):  *)
(* the `elements` selector (Selector Resolver), `countedElements` (Element *)
(* Aggregator) and `heatmapElements` / `heatmapJsData` (Heatmap Projector).*)
(***************************************************************************)
EXTENDS Integers, Sequences, FiniteSets, TLC

VARIABLES
    href,                     \* currentPageLogic.href
    matchLinksByHref,         \* reducer matchLinksByHref
    elementStats,             \* loader value elementStats (null or a page)
    cache,                    \* logic.cache: lastHref, pageElements, selectorToElements
    elements,                 \* value of the `elements` selector
    lastRun,                  \* what the last evaluation of `elements` did, per event
    clickmapsEnabled,         \* reducer clickmapsEnabled
    rawHeatmap,               \* loader value rawHeatmap (null or {results})
    heatmapScrollY,           \* reducer heatmapScrollY
    windowWidth,              \* windowValues.windowWidth
    heatmapFixedPositionMode, \* reducer heatmapFixedPositionMode
    wildcardHref,             \* currentPageLogic.wildcardHref
    commonFilters,            \* reducer commonFilters
    heatmapFilters,           \* reducer heatmapFilters
    heatmapEnabled,           \* reducer heatmapEnabled
    canLoadMoreElementStats,  \* reducer canLoadMoreElementStats
    waiting,                  \* listener invocations suspended in `await breakpoint(delayMs)`
    inFlight,                 \* requests whose response has not arrived yet
    effects,                  \* what the last step did to the outside: requests, authenticate
    burst,                    \* the heatmap requests made for the current burst of triggers
    heatmapFrom,              \* which load the value of rawHeatmap came from
    counter,                  \* kea's mount counter of each permanently mounted logic
    holders,                  \* the users holding an unmount function of each logic
    permanentMount,           \* logic.cache._permanentMount of each logic
    afterMountFnRuns,         \* how often afterMountFn has run for each logic
    mountCount,               \* kea's mount counter of heatmapLogic
    made,                     \* how often afterMount of heatmapLogic has run
    windowListeners,          \* the keydown / keyup listeners registered on window
    intervals,                \* the interval timers that are set
    handles,                  \* cache.keyDownListener, keyUpListener, scrollCheckTimer
    shiftPressed              \* reducer shiftPressed

fetchVars == <<wildcardHref, commonFilters, heatmapFilters, heatmapEnabled,
               canLoadMoreElementStats, waiting, inFlight, effects, burst, heatmapFrom>>

mountVars == <<counter, holders, permanentMount, afterMountFnRuns>>

lifecycleVars == <<mountCount, made, windowListeners, intervals, handles, shiftPressed>>

toolbarVars == <<href, matchLinksByHref, elementStats, cache, elements, lastRun,
                 clickmapsEnabled, rawHeatmap, heatmapScrollY, windowWidth,
                 heatmapFixedPositionMode, fetchVars>>

vars == <<toolbarVars, mountVars, lifecycleVars>>

resolverVars == <<href, matchLinksByHref, elementStats, cache>>
projectorVars == <<rawHeatmap, heatmapScrollY, windowWidth, heatmapFixedPositionMode>>

----------------------------------------------------------------------------
(* Bounds of the model *)

\* longest element path of an event
MaxPath == 3
\* most events held in elementStats.results
MaxEvents == 2
\* most element descriptors held in elementStats.results, over all events
MaxDescriptors == 3
\* largest count of one event / one heatmap record
MaxCount == 2

----------------------------------------------------------------------------
(* The page: the live DOM the toolbar is embedded in.  Every href shows its *)
(* own document; a node is identified by its index in DomNodes.            *)

Hrefs == {"/a", "/b"}

NoNode == 0

\*  /a :  div.app > ( a[href=/x] > svg ,  a[href=/y] ,  button )
\*  /b :  div.app > ( a[href=/z] > svg ,  svg )
DomNodes == <<
    [page |-> "/a", parent |-> 0, tag |-> "div",    cls |-> "app", id |-> "", href |-> "",   data |-> ""],
    [page |-> "/a", parent |-> 1, tag |-> "a",      cls |-> "",    id |-> "", href |-> "/x", data |-> ""],
    [page |-> "/a", parent |-> 2, tag |-> "svg",    cls |-> "",    id |-> "", href |-> "",   data |-> ""],
    [page |-> "/a", parent |-> 1, tag |-> "a",      cls |-> "",    id |-> "", href |-> "/y", data |-> ""],
    [page |-> "/a", parent |-> 1, tag |-> "button", cls |-> "",    id |-> "", href |-> "",   data |-> ""],
    [page |-> "/b", parent |-> 0, tag |-> "div",    cls |-> "app", id |-> "", href |-> "",   data |-> ""],
    [page |-> "/b", parent |-> 6, tag |-> "a",      cls |-> "",    id |-> "", href |-> "/z", data |-> ""],
    [page |-> "/b", parent |-> 7, tag |-> "svg",    cls |-> "",    id |-> "", href |-> "",   data |-> ""],
    [page |-> "/b", parent |-> 6, tag |-> "svg",    cls |-> "",    id |-> "", href |-> "",   data |-> ""] >>

Nodes == 1..Len(DomNodes)

Parent(n) == IF n = NoNode THEN NoNode ELSE DomNodes[n].parent

RECURSIVE NodesFrom(_)
NodesFrom(n) == IF n > Len(DomNodes) THEN <<>> ELSE <<n>> \o NodesFrom(n + 1)

\* collectAllElementsDeep('*', document): every element of the current
\* document, in document order
CollectAllElementsDeep(h) ==
    LET OnPage(n) == DomNodes[n].page = h IN SelectSeq(NodesFrom(1), OnPage)

----------------------------------------------------------------------------
(* Element descriptors of an event (ElementType) and CSS selectors.        *)

NoStr == ""

Desc(tag, cls, hrf, txt, nthc, ntht) ==
    [tag_name |-> tag, attr_class |-> cls, attr_id |-> NoStr, href |-> hrf, text |-> txt,
     nth_child |-> nthc, nth_of_type |-> ntht, data_attr |-> NoStr]

DescSvg  == Desc("svg", NoStr, NoStr, NoStr, 1, 1)    \* bare tag, first child
DescLink == Desc("a", NoStr, "/x", "buy", 1, 1)       \* link with an href
DescApp  == Desc("div", "app", NoStr, NoStr, 1, 1)    \* tag and class
DescBad  == Desc("a[", NoStr, NoStr, NoStr, 1, 1)     \* yields a selector the query rejects

Descs == {DescSvg, DescLink, DescApp, DescBad}

\* A simple selector is the set of constraints it puts on one element; a
\* combined selector "s_k > ... > s_1" is the sequence <<s_k, ..., s_1>>.
SimpleSelector(tag, cls, id, hrf, data) ==
    [tag |-> tag, cls |-> cls, id |-> id, href |-> hrf, data |-> data]

EmptySelector == SimpleSelector(NoStr, NoStr, NoStr, NoStr, NoStr)   \* ''
Star == EmptySelector                                                \* '*'

\* lib/actionUtils elementToSelector: tag, class, id, custom data attribute
\* and (for links) href of the descriptor; text and the nth indices are not
\* part of the selector
ElementToSelector(e) ==
    SimpleSelector(e.tag_name, e.attr_class, e.attr_id,
                   IF e.tag_name = "a" THEN e.href ELSE NoStr, e.data_attr)

MatchesSimple(s, n) ==
    /\ n # NoNode
    /\ s.tag  # NoStr => DomNodes[n].tag = s.tag
    /\ s.cls  # NoStr => DomNodes[n].cls = s.cls
    /\ s.id   # NoStr => DomNodes[n].id = s.id
    /\ s.href # NoStr => DomNodes[n].href = s.href
    /\ s.data # NoStr => DomNodes[n].data = s.data

\* n matches "s_k > ... > s_1": n matches s_1, its parent s_2, and so on
RECURSIVE MatchesCombined(_, _)
MatchesCombined(sel, n) ==
    /\ MatchesSimple(sel[Len(sel)], n)
    /\ Len(sel) > 1 => MatchesCombined(SubSeq(sel, 1, Len(sel) - 1), Parent(n))

\* a selector string the CSS parser rejects: querySelectorAllDeep throws
InvalidSelector(sel) == \E k \in 1..Len(sel) : sel[k].tag = "a["

\* querySelectorAllDeep(combinedSelector, document, cache.pageElements): the
\* collected elements that match, in document order
QuerySelectorAllDeep(sel, pageElements) ==
    LET Hit(n) == MatchesCombined(sel, n) IN SelectSeq(pageElements, Hit)

----------------------------------------------------------------------------
(* Events of the element-stats endpoint (ElementsEventType).               *)

RECURSIVE SeqsUpTo(_, _)
SeqsUpTo(S, n) ==
    IF n = 0 THEN {<<>>}
    ELSE LET shorter == SeqsUpTo(S, n - 1)
         IN  shorter \cup {<<x>> \o s : x \in S, s \in {t \in shorter : Len(t) = n - 1}}

Paths == SeqsUpTo(Descs, MaxPath)

EventTypes == {"$autocapture", "$rageclick"}

\* count, type and hash of the events the endpoint returns
EventMetas == {[count |-> 1, type |-> "$autocapture", hash |-> "h1"],
               [count |-> MaxCount, type |-> "$rageclick", hash |-> "h2"]}

Events == {[elements |-> p, count |-> m.count, type |-> m.type, hash |-> m.hash] :
           p \in Paths, m \in EventMetas}

RECURSIVE DescriptorCount(_)
DescriptorCount(results) ==
    IF results = <<>> THEN 0 ELSE Len(Head(results).elements) + DescriptorCount(Tail(results))

\* elementStats: null | PaginatedResponse<ElementsEventType>
NullStats == [isNull |-> TRUE, results |-> <<>>, next |-> "undefined", previous |-> "undefined"]

\* const emptyElementsStatsPages
emptyElementsStatsPages ==
    [isNull |-> FALSE, results |-> <<>>, next |-> "undefined", previous |-> "undefined"]

----------------------------------------------------------------------------
(* Selector Resolver: the `elements` selector.                             *)

NoSelector == <<>>     \* lastSelector is undefined

EmptyMemo == [sel \in {} |-> <<>>]

\* the "too simple selector" test of the innermost element
TooSimple(i, e) ==
    /\ i = 0
    /\ e.tag_name # NoStr
    /\ e.attr_class = NoStr
    /\ e.attr_id = NoStr
    /\ e.href = NoStr
    /\ e.text = NoStr
    /\ e.nth_child = 1
    /\ e.nth_of_type = 1
    /\ e.data_attr = NoStr

\* selector of path element i (0-based) of an event
SelectorAt(event, i, mlbh) ==
    LET element == event.elements[i + 1]
        sel == ElementToSelector(IF mlbh THEN element ELSE [element EXCEPT !.href = NoStr])
    IN  IF sel = EmptySelector THEN Star ELSE sel

\* mutant: the chain matched so far is dropped
CombinedSelectorAlone(selector, lastSelector) == <<selector>>

CombinedSelector(selector, lastSelector) ==
    IF lastSelector # NoSelector THEN <<selector>> \o lastSelector ELSE <<selector>>

\* lastSelector after a combined selector matched nothing at an inner index
WidenedSelector(lastSelector) ==
    IF lastSelector # NoSelector THEN <<Star>> \o lastSelector ELSE <<Star>>

\* mutant: the event type is not copied
ResolvedElementUntyped(node, event, selector) ==
    [element |-> node, count |-> event.count, selector |-> selector,
     hash |-> event.hash, type |-> "$autocapture"]

ResolvedElement(node, event, selector) ==
    [element |-> node, count |-> event.count, selector |-> selector,
     hash |-> event.hash, type |-> event.type]

\* domElements[0]: undefined when the list is empty
FirstOf(domElements) == IF domElements = <<>> THEN NoNode ELSE domElements[1]

\* mutant: the length test is off by one (an empty list is accepted too)
AcceptsAtMostOne(domElements, i, e) == Len(domElements) <= 1 /\ ~TooSimple(i, e)

\* if (domElements.length === 1) { if (<too simple>) { bail } else { push; return } }
Accepts(domElements, i, e) == Len(domElements) = 1 /\ ~TooSimple(i, e)

\* if (domElements.length === 0) { if (i === event.elements.length - 1) return null
GivesUp(domElements, i, event) == Len(domElements) = 0 /\ i = Len(event.elements) - 1

\* mutant: the innermost selector is replaced by a wildcard too
WidensAnywhere(domElements, i, lastSelector) == Len(domElements) = 0

\* ... else if (i > 0 && lastSelector) { lastSelector = `* > ...`; continue }
Widens(domElements, i, lastSelector) ==
    Len(domElements) = 0 /\ i > 0 /\ lastSelector # NoSelector

Outcome(found, memo, tried, threw, queried) ==
    [found |-> found, memo |-> memo, tried |-> tried, threw |-> threw, queried |-> queried]

\* cache.selectorToElements?.[combinedSelector], else the query on the document
DomElementsFor(combinedSelector, memo, pageElements) ==
    IF combinedSelector \in DOMAIN memo THEN memo[combinedSelector]
    ELSE QuerySelectorAllDeep(combinedSelector, pageElements)

\* mutant: the result of a query is not stored
MemoWithout(memo, combinedSelector, domElements) == memo

\* cache.selectorToElements[combinedSelector] = domElements, after a query
MemoWith(memo, combinedSelector, domElements) ==
    IF combinedSelector \in DOMAIN memo THEN memo
    ELSE memo @@ (combinedSelector :> domElements)

\* the calls of querySelectorAllDeep so far: one more when the table has no
\* entry for the combined selector (domElements === undefined)
QueriedWith(queried, memo, combinedSelector) ==
    IF combinedSelector \in DOMAIN memo THEN queried ELSE Append(queried, combinedSelector)

\* The for loop of one event from index i on: found is the ResolvedElement
\* pushed (at most one), memo the selectorToElements table afterwards, tried
\* the combined selectors looked up so far (in order), threw whether the
\* query threw (the catch was taken), queried the combined selectors handed
\* to querySelectorAllDeep so far (in order).
RECURSIVE ResolveFrom(_, _, _, _, _, _, _, _)

\* the rest of the loop body once domElements is known
AfterLookup(event, i, lastSelector, memo, pageElements, mlbh, tried, queried, combinedSelector, domElements) ==
    IF Accepts(domElements, i, event.elements[i + 1])
    THEN Outcome(<<ResolvedElement(FirstOf(domElements), event, SelectorAt(event, i, mlbh))>>,
                 memo, tried, FALSE, queried)                      \* push, return null
    ELSE IF GivesUp(domElements, i, event)
    THEN Outcome(<<>>, memo, tried, FALSE, queried)                \* return null
    ELSE IF Widens(domElements, i, lastSelector)
    THEN ResolveFrom(event, i + 1, WidenedSelector(lastSelector),
                     memo, pageElements, mlbh, tried, queried)     \* continue
    ELSE ResolveFrom(event, i + 1, combinedSelector, memo, pageElements, mlbh, tried, queried)

\* the try block for the combined selector of index i
TrySelector(event, i, lastSelector, memo, pageElements, mlbh, tried, queried, combinedSelector) ==
    IF combinedSelector \notin DOMAIN memo /\ InvalidSelector(combinedSelector)
    THEN Outcome(<<>>, memo, Append(tried, combinedSelector), TRUE,
                 QueriedWith(queried, memo, combinedSelector))        \* catch: break
    ELSE AfterLookup(event, i, lastSelector,
                     MemoWith(memo, combinedSelector,
                              DomElementsFor(combinedSelector, memo, pageElements)),
                     pageElements, mlbh, Append(tried, combinedSelector),
                     QueriedWith(queried, memo, combinedSelector), combinedSelector,
                     DomElementsFor(combinedSelector, memo, pageElements))

ResolveFrom(event, i, lastSelector, memo, pageElements, mlbh, tried, queried) ==
    IF i >= Len(event.elements) THEN Outcome(<<>>, memo, tried, FALSE, queried)
    ELSE TrySelector(event, i, lastSelector, memo, pageElements, mlbh, tried, queried,
                     CombinedSelector(SelectorAt(event, i, mlbh), lastSelector))

ResolveEvent(event, memo, pageElements, mlbh) ==
    ResolveFrom(event, 0, NoSelector, memo, pageElements, mlbh, <<>>, <<>>)

PerEvent(first) == [found |-> first.found, tried |-> first.tried, threw |-> first.threw]

\* the run of the first event joined with the run of the events after it
Joined(first, rest) ==
    [elements |-> first.found \o rest.elements,
     memo |-> rest.memo,
     perEvent |-> <<PerEvent(first)>> \o rest.perEvent,
     queried |-> first.queried \o rest.queried]

NothingRun(memo) == [elements |-> <<>>, memo |-> memo, perEvent |-> <<>>, queried |-> <<>>]

\* mutant: no try/catch, the exception ends the forEach
RECURSIVE ResolveAllEscaping(_, _, _, _)
EscapingAfter(results, first, pageElements, mlbh) ==
    Joined(first, IF first.threw THEN NothingRun(first.memo)
                  ELSE ResolveAllEscaping(Tail(results), first.memo, pageElements, mlbh))

ResolveAllEscaping(results, memo, pageElements, mlbh) ==
    IF results = <<>> THEN NothingRun(memo)
    ELSE EscapingAfter(results, ResolveEvent(Head(results), memo, pageElements, mlbh),
                       pageElements, mlbh)

\* elementStats?.results.forEach(...): elements is the list returned, memo
\* the table afterwards, perEvent what each event's callback did
RECURSIVE ResolveAll(_, _, _, _)
ResolveAfter(results, first, pageElements, mlbh) ==
    Joined(first, ResolveAll(Tail(results), first.memo, pageElements, mlbh))

ResolveAll(results, memo, pageElements, mlbh) ==
    IF results = <<>> THEN NothingRun(memo)
    ELSE ResolveAfter(results, ResolveEvent(Head(results), memo, pageElements, mlbh),
                      pageElements, mlbh)

NoHref == "undefined"

InitialCache == [lastHref |-> NoHref, pageElements |-> <<>>, selectorToElements |-> EmptyMemo]

\* cache.pageElements / cache.selectorToElements kept only for the same href
PageElementsFor(c, h) ==
    IF c.lastHref = h THEN c.pageElements ELSE CollectAllElementsDeep(h)

\* mutant: the table is kept when the href changes
SelectorMemoKept(c, h) == c.selectorToElements

SelectorMemoFor(c, h) ==
    IF c.lastHref = h THEN c.selectorToElements ELSE EmptyMemo

StatsResults(stats) == IF stats.isNull THEN <<>> ELSE stats.results

Evaluation(h, pageElements, run) ==
    [elements |-> run.elements,
     perEvent |-> run.perEvent,
     queried |-> run.queried,
     cache |-> [lastHref |-> h, pageElements |-> pageElements,
                selectorToElements |-> run.memo]]

\* one evaluation of the `elements` selector: its value and the cache after
ElementsSelector(stats, h, mlbh, c) ==
    Evaluation(h, PageElementsFor(c, h),
               ResolveAll(StatsResults(stats), SelectorMemoFor(c, h), PageElementsFor(c, h), mlbh))

----------------------------------------------------------------------------
(* The resolver as a state machine: the store values it reads change, and  *)
(* the selector is evaluated again for its subscribers.  The requests the  *)
(* listeners of these actions send show here only when a page of results   *)
(* arrives in the store.                                                   *)

Evaluated(run) ==
    /\ elements' = run.elements
    /\ lastRun' = run.perEvent
    /\ cache' = run.cache

Reevaluate(stats, h, mlbh) == Evaluated(ElementsSelector(stats, h, mlbh, cache))

IdleClickmaps == clickmapsEnabled = TRUE

\* a number num/den, or undefined
Fraction(num, den) == [undefined |-> FALSE, num |-> num, den |-> den]
UndefinedNumber == [undefined |-> TRUE, num |-> 0, den |-> 1]

\* reducer heatmapFilters: the default
InitialHeatmapFilters ==
    [enabled |-> TRUE, type |-> "click", viewportAccuracy |-> Fraction(9, 10),
     aggregation |-> "total_count"]

\* reducer commonFilters: the default {}
InitialCommonFilters == [date_from |-> "undefined", date_to |-> "undefined"]

NoBurst == [active |-> FALSE, requests |-> 0]

\* the fetch orchestrator at rest: reducer defaults, nothing suspended, no
\* request in flight
IdleFetch ==
    /\ wildcardHref = href
    /\ commonFilters = InitialCommonFilters
    /\ heatmapFilters = InitialHeatmapFilters
    /\ heatmapEnabled = FALSE
    /\ canLoadMoreElementStats = TRUE
    /\ waiting = <<>>
    /\ inFlight = <<>>
    /\ effects = <<>>
    /\ burst = NoBurst
    /\ heatmapFrom = "none"

IdleResolver ==
    /\ matchLinksByHref = FALSE
    /\ elementStats = NullStats
    /\ cache = InitialCache
    /\ lastRun = <<>>

IdleProjector ==
    /\ rawHeatmap = [isNull |-> TRUE, results |-> <<>>]   \* null
    /\ heatmapScrollY = 0
    /\ windowWidth = 0
    /\ heatmapFixedPositionMode = "fixed"

\* most users of a permanently mounted logic
MaxUsers == 4

Users == 1..MaxUsers

\* the logics built with permanentlyMount
Logics == {"logicA", "logicB"}

\* no logic has been mounted yet
IdleMount ==
    /\ counter = [l \in Logics |-> 0]
    /\ holders = [l \in Logics |-> {}]
    /\ permanentMount = [l \in Logics |-> FALSE]
    /\ afterMountFnRuns = [l \in Logics |-> 0]

\* heatmapLogic before it is mounted: nothing registered, cache empty
LifecycleBeforeMount ==
    /\ mountCount = 0
    /\ made = 0
    /\ windowListeners = [keydown |-> {}, keyup |-> {}]
    /\ intervals = {}
    /\ handles = [keyDownListener |-> 0, keyUpListener |-> 0, scrollCheckTimer |-> 0]
    /\ shiftPressed = FALSE

\* heatmapLogic mounted by the toolbar: afterMount has run once
LifecycleAfterMount ==
    /\ mountCount = 1
    /\ made = 1
    /\ windowListeners = [keydown |-> {1}, keyup |-> {1}]
    /\ intervals = {1}
    /\ handles = [keyDownListener |-> 1, keyUpListener |-> 1, scrollCheckTimer |-> 1]
    /\ shiftPressed = FALSE

\* the selector is evaluated when the toolbar mounts
FirstEvaluation(run) ==
    /\ elements = run.elements
    /\ lastRun = run.perEvent
    /\ cache = run.cache

InitResolver ==
    /\ IdleMount
    /\ LifecycleAfterMount
    /\ href \in Hrefs
    /\ matchLinksByHref = FALSE
    /\ elementStats = NullStats
    /\ FirstEvaluation(ElementsSelector(NullStats, href, FALSE, InitialCache))
    /\ IdleClickmaps
    /\ IdleProjector
    /\ IdleFetch

\* setHref reaches the store: the page has navigated
ResolverSetHref(h) ==
    /\ h # href
    /\ href' = h
    /\ Reevaluate(elementStats, h, matchLinksByHref)
    /\ UNCHANGED <<matchLinksByHref, elementStats, clickmapsEnabled, projectorVars, fetchVars, mountVars, lifecycleVars>>

\* reducer matchLinksByHref
ResolverSetMatchLinksByHref(b) ==
    /\ matchLinksByHref' = b
    /\ Reevaluate(elementStats, href, b)
    /\ UNCHANGED <<href, elementStats, clickmapsEnabled, projectorVars, fetchVars, mountVars, lifecycleVars>>

\* getElementStatsSuccess reaches the store with one more event accumulated
ResolverPageLoaded(event) ==
    /\ Len(elementStats.results) < MaxEvents
    /\ DescriptorCount(elementStats.results) + Len(event.elements) <= MaxDescriptors
    /\ elementStats' = [isNull |-> FALSE,
                        results |-> elementStats.results \o <<event>>,
                        next |-> "null", previous |-> "null"]
    /\ Reevaluate(elementStats', href, matchLinksByHref)
    /\ UNCHANGED <<href, matchLinksByHref, clickmapsEnabled, projectorVars, fetchVars, mountVars, lifecycleVars>>

\* the events that still fit within the bounds
EventsFitting ==
    IF Len(elementStats.results) >= MaxEvents THEN {}
    ELSE {event \in Events :
            DescriptorCount(elementStats.results) + Len(event.elements) <= MaxDescriptors}

NextResolver ==
    \/ \E h \in Hrefs : ResolverSetHref(h)
    \/ \E b \in BOOLEAN : ResolverSetMatchLinksByHref(b)
    \/ \E event \in EventsFitting : ResolverPageLoaded(event)

SpecResolver == InitResolver /\ [][NextResolver]_vars

\* The resolver fed with events that differ in their element path only: the
\* cache is keyed by combined selector, which is built from the elements of
\* an event and from nothing else of it.
EventsByPath == {event \in EventsFitting : event.hash = "h1"}

NextMemo ==
    \/ \E h \in Hrefs : ResolverSetHref(h)
    \/ \E b \in BOOLEAN : ResolverSetMatchLinksByHref(b)
    \/ \E event \in EventsByPath : ResolverPageLoaded(event)

SpecMemo == InitResolver /\ [][NextMemo]_vars

----------------------------------------------------------------------------
(* Element Aggregator: the `countedElements` selector.                     *)

\* most ResolvedElements given to the aggregator
MaxResolved == 3

ClickTargets == {"a", "button"}

\* toolbar/utils trimElement: the nearest element, from the node upwards,
\* that is a meaningful click target; null when there is none
RECURSIVE TrimElement(_)
TrimElement(n) ==
    IF n = NoNode THEN NoNode
    ELSE IF DomNodes[n].tag \in ClickTargets THEN n
    ELSE TrimElement(Parent(n))

\* toolbar/utils elementToActionStep: the attributes of the trimmed element
\* an action can be defined on
ElementToActionStep(n) ==
    [tag_name |-> DomNodes[n].tag, href |-> DomNodes[n].href]

\* mutant: every count is booked as a click
ClickPartAlways(countedElement) == countedElement.count

\* countedElement.type === '$rageclick' ? 0 : countedElement.count
ClickPart(countedElement) ==
    IF countedElement.type = "$rageclick" THEN 0 ELSE countedElement.count

\* countedElement.type === '$rageclick' ? countedElement.count : 0
RagePart(countedElement) ==
    IF countedElement.type = "$rageclick" THEN countedElement.count ELSE 0

\* index of the entry of the Map whose key is the node, 0 when the Map has none
MapIndex(entries, node) ==
    IF \E k \in 1..Len(entries) : entries[k].element = node
    THEN CHOOSE k \in 1..Len(entries) : entries[k].element = node
    ELSE 0

\* one step of the forEach over the elements: normalisedElements afterwards
Normalise(entries, countedElement) ==
    LET trimmedElement == TrimElement(countedElement.element)
        k == MapIndex(entries, trimmedElement)
    IN  IF trimmedElement = NoNode THEN entries
        ELSE IF k # 0
        THEN [entries EXCEPT ![k] =
                [@ EXCEPT !.count = @ + countedElement.count,
                          !.clickCount = @ + ClickPart(countedElement),
                          !.rageclickCount = @ + RagePart(countedElement)]]
        ELSE Append(entries,
                [element |-> trimmedElement,
                 count |-> countedElement.count,
                 selector |-> countedElement.selector,
                 hash |-> countedElement.hash,
                 type |-> countedElement.type,
                 clickCount |-> ClickPart(countedElement),
                 rageclickCount |-> RagePart(countedElement),
                 actionStep |-> ElementToActionStep(trimmedElement)])

\* Array.from(normalisedElements.values()): the Map in insertion order
RECURSIVE NormalisedElements(_, _)
NormalisedElements(entries, elems) ==
    IF elems = <<>> THEN entries
    ELSE NormalisedElements(Normalise(entries, Head(elems)), Tail(elems))

\* mutant: the comparator sorts ascending
CompareAscending(a, b) == a.count - b.count

\* the comparator of countedElements.sort
Compare(a, b) == b.count - a.count

\* Array.prototype.sort is stable: x goes after every entry it does not
\* strictly precede
RECURSIVE InsertSorted(_, _)
InsertSorted(sorted, x) ==
    IF sorted = <<>> THEN <<x>>
    ELSE IF Compare(x, Head(sorted)) < 0 THEN <<x>> \o sorted
    ELSE <<Head(sorted)>> \o InsertSorted(Tail(sorted), x)

RECURSIVE SortByCount(_, _)
SortByCount(sorted, entries) ==
    IF entries = <<>> THEN sorted
    ELSE SortByCount(InsertSorted(sorted, Head(entries)), Tail(entries))

\* countedElements.map((e, i) => ({ ...e, position: i + 1 }))
WithPositions(entries) ==
    [i \in 1..Len(entries) |->
        [element |-> entries[i].element, count |-> entries[i].count,
         selector |-> entries[i].selector, hash |-> entries[i].hash,
         type |-> entries[i].type, clickCount |-> entries[i].clickCount,
         rageclickCount |-> entries[i].rageclickCount,
         actionStep |-> entries[i].actionStep, position |-> i]]

\* mutant: the clickmap switch is not looked at
CountedElementsUnguarded(elems, enabled) ==
    WithPositions(SortByCount(<<>>, NormalisedElements(<<>>, elems)))

\* the `countedElements` selector
CountedElements(elems, enabled) ==
    IF ~enabled THEN <<>>
    ELSE WithPositions(SortByCount(<<>>, NormalisedElements(<<>>, elems)))

countedElements == CountedElements(elements, clickmapsEnabled)

\* mutant: the Map holds the object it was given, not a copy
StoredObjectGiven(j) == j

\* normalisedElements.set(trimmedElement, { ...countedElement, ... }): the
\* object stored for input j is a new one, it is none of the inputs (0)
StoredObject(j) == 0

\* The ResolvedElements as the forEach leaves them, from input j on: stored
\* says, for each key of the Map, which object it holds; `existing.count +=
\* countedElement.count` writes to that object.
RECURSIVE InputsAfter(_, _, _)
InputsAfter(inputs, j, stored) ==
    IF j > Len(inputs) THEN inputs
    ELSE LET trimmedElement == TrimElement(inputs[j].element)
             k == MapIndex(stored, trimmedElement)
         IN  IF trimmedElement = NoNode THEN InputsAfter(inputs, j + 1, stored)
             ELSE IF k = 0
             THEN InputsAfter(inputs, j + 1,
                              Append(stored, [element |-> trimmedElement,
                                              object |-> StoredObject(j)]))
             ELSE IF stored[k].object = 0 THEN InputsAfter(inputs, j + 1, stored)
             ELSE InputsAfter([inputs EXCEPT ![stored[k].object].count = @ + inputs[j].count],
                              j + 1, stored)

\* the ResolvedElements after one evaluation of `countedElements`
ElementsAfter(elems, enabled) == IF enabled THEN InputsAfter(elems, 1, <<>>) ELSE elems

\* countedElements.map((e) => e.count).reduce((a, b) => a + b, 0)
RECURSIVE SumCounts(_, _)
SumCounts(counted, a) ==
    IF counted = <<>> THEN a ELSE SumCounts(Tail(counted), a + Head(counted).count)

\* countedElements.map((e) => e.count).reduce((a, b) => (b > a ? b : a), 0)
RECURSIVE HighestCount(_, _)
HighestCount(counted, a) ==
    IF counted = <<>> THEN a
    ELSE HighestCount(Tail(counted), IF Head(counted).count > a THEN Head(counted).count ELSE a)

\* the `elementCount`, `clickCount` and `highestClickCount` selectors
elementCount == Len(countedElements)

clickCount == SumCounts(countedElements, 0)

highestClickCount == HighestCount(countedElements, 0)

\* reducer clickmapsEnabled: toggleClickmapsEnabled(enabled?)
ClickmapsEnabledReducer(state, enabled) ==
    IF enabled = "undefined" THEN ~state ELSE enabled = "true"

\* the ResolvedElements the aggregator can be given on a page
ResolvedOn(h) ==
    {[element |-> n, count |-> c, selector |-> Star, hash |-> "h1", type |-> t] :
        n \in {m \in Nodes : DomNodes[m].page = h}, c \in {1, MaxCount}, t \in EventTypes} \
    {[element |-> n, count |-> MaxCount, selector |-> Star, hash |-> "h1", type |-> "$rageclick"] :
        n \in Nodes}

InitAggregator ==
    /\ IdleMount
    /\ LifecycleAfterMount
    /\ href \in Hrefs
    /\ elements \in UNION {[1..n -> ResolvedOn(href)] : n \in 0..MaxResolved}
    /\ IdleResolver
    /\ IdleClickmaps
    /\ IdleProjector
    /\ IdleFetch

\* the switch is set and `countedElements` is evaluated again
AggregatorToggleClickmaps(enabled) ==
    /\ clickmapsEnabled' = ClickmapsEnabledReducer(clickmapsEnabled, enabled)
    /\ elements' = ElementsAfter(elements, clickmapsEnabled')
    /\ UNCHANGED <<resolverVars, lastRun, projectorVars, fetchVars, mountVars, lifecycleVars>>

NextAggregator ==
    \E enabled \in {"undefined", "true", "false"} : AggregatorToggleClickmaps(enabled)

SpecAggregator == InitAggregator /\ [][NextAggregator]_vars

----------------------------------------------------------------------------
(* Heatmap Projector: the `heatmapElements` and `heatmapJsData` selectors. *)

\* most records held in rawHeatmap.results
MaxRecords == 2

\* pointer_relative_x is a fraction num/den of the window width
RelativeXs == {[num |-> 0, den |-> 1], [num |-> 1, den |-> 2], [num |-> 2, den |-> 3]}

PixelYs == {0, 40, 100}
ScrollYs == {0, 30}
WindowWidths == {1000, 1200}
FixedPositionModes == {"fixed", "relative", "hidden"}

\* a record of the heatmap endpoint: a scroll-depth record (it has the key
\* scroll_depth_bucket) or a pointer record
ScrollDepthRecords ==
    {[hasScrollDepthBucket |-> TRUE, scroll_depth_bucket |-> b, cumulative_count |-> c,
      count |-> 0, pointer_relative_x |-> [num |-> 0, den |-> 1], pointer_y |-> 0,
      pointer_target_fixed |-> FALSE] : b \in PixelYs \ {0}, c \in {1, MaxCount}}

PointerRecords ==
    {[hasScrollDepthBucket |-> FALSE, scroll_depth_bucket |-> 0, cumulative_count |-> 0,
      count |-> c, pointer_relative_x |-> x, pointer_y |-> y,
      pointer_target_fixed |-> f] :
        c \in {1, MaxCount}, x \in RelativeXs, y \in PixelYs \ {0}, f \in BOOLEAN}

HeatmapRecords == ScrollDepthRecords \cup PointerRecords

\* rawHeatmap: null | HeatmapResponseType
NullHeatmap == [isNull |-> TRUE, results |-> <<>>]

\* mutant: every record is read as a pointer record
HeatmapElementOfPointer(element) ==
    [count |-> element.count,
     xPercentage |-> element.pointer_relative_x,
     targetFixed |-> element.pointer_target_fixed,
     y |-> element.pointer_y]

\* one step of rawHeatmap.results.forEach: the HeatmapElement pushed
HeatmapElementOf(element) ==
    IF element.hasScrollDepthBucket
    THEN [count |-> element.cumulative_count,
          xPercentage |-> [num |-> 0, den |-> 1],
          targetFixed |-> FALSE,
          y |-> element.scroll_depth_bucket]
    ELSE [count |-> element.count,
          xPercentage |-> element.pointer_relative_x,
          targetFixed |-> element.pointer_target_fixed,
          y |-> element.pointer_y]

\* the `heatmapElements` selector
HeatmapElements(raw) ==
    IF raw.isNull THEN <<>>
    ELSE [k \in 1..Len(raw.results) |-> HeatmapElementOf(raw.results[k])]

\* Math.round of the fraction num/den: the nearest integer, halves upwards
MathRound(num, den) == (2 * num + den) \div (2 * den)

\* mutant: fixed-position elements are never left out
SkippedNever(mode, element) == FALSE

\* heatmapFixedPositionMode === 'hidden' && element.targetFixed
Skipped(mode, element) == mode = "hidden" /\ element.targetFixed

\* mutant: the scroll offset is subtracted from every y
PointYScrolled(element, scrollY, mode) == MathRound(element.y - scrollY, 1)

\* the y of a point
PointY(element, scrollY, mode) ==
    MathRound(IF element.targetFixed /\ mode = "fixed" THEN element.y
              ELSE element.y - scrollY, 1)

\* mutant: the x of a point is truncated
PointXTruncated(element, width) ==
    (element.xPercentage.num * width) \div element.xPercentage.den

\* the x of a point
PointX(element, width) == MathRound(element.xPercentage.num * width, element.xPercentage.den)

\* heatmapElements.reduce(...): the points, in the order of the elements
RECURSIVE HeatmapPoints(_, _, _, _)
HeatmapPoints(elems, scrollY, width, mode) ==
    IF elems = <<>> THEN <<>>
    ELSE (IF Skipped(mode, Head(elems)) THEN <<>>
          ELSE <<[x |-> PointX(Head(elems), width),
                  y |-> PointY(Head(elems), scrollY, mode),
                  value |-> Head(elems).count]>>)
         \o HeatmapPoints(Tail(elems), scrollY, width, mode)

\* mutant: the last value wins
RECURSIVE MaxValueLast(_, _)
MaxValueLast(data, max) ==
    IF data = <<>> THEN max ELSE MaxValueLast(Tail(data), Head(data).value)

\* data.reduce((max, { value }) => Math.max(max, value), 0)
RECURSIVE MaxValue(_, _)
MaxValue(data, max) ==
    IF data = <<>> THEN max
    ELSE MaxValue(Tail(data), IF Head(data).value > max THEN Head(data).value ELSE max)

\* the `heatmapJsData` selector
HeatmapJsData(elems, scrollY, width, mode) ==
    LET data == HeatmapPoints(elems, scrollY, width, mode)
    IN  [min |-> 0, max |-> MaxValue(data, 0), data |-> data]

heatmapElements == HeatmapElements(rawHeatmap)

heatmapJsData ==
    HeatmapJsData(heatmapElements, heatmapScrollY, windowWidth, heatmapFixedPositionMode)

IdleAggregator ==
    /\ href = "/a"
    /\ elements = <<>>

InitProjector ==
    /\ IdleMount
    /\ LifecycleAfterMount
    /\ rawHeatmap \in {NullHeatmap}
         \cup {[isNull |-> FALSE, results |-> r] : r \in SeqsUpTo(HeatmapRecords, MaxRecords)}
    /\ heatmapScrollY = 0
    /\ windowWidth \in WindowWidths
    /\ heatmapFixedPositionMode = "fixed"
    /\ IdleResolver
    /\ IdleAggregator
    /\ IdleClickmaps
    /\ IdleFetch

\* reducer heatmapScrollY
setHeatmapScrollY(scrollY) ==
    /\ heatmapScrollY' = scrollY
    /\ UNCHANGED <<resolverVars, elements, lastRun, clickmapsEnabled, fetchVars, mountVars, lifecycleVars,
                   rawHeatmap, windowWidth, heatmapFixedPositionMode>>

\* reducer heatmapFixedPositionMode
setHeatmapFixedPositionMode(mode) ==
    /\ heatmapFixedPositionMode' = mode
    /\ UNCHANGED <<resolverVars, elements, lastRun, clickmapsEnabled, fetchVars, mountVars, lifecycleVars,
                   rawHeatmap, windowWidth, heatmapScrollY>>

\* windowValues: the window is resized
WindowResized(width) ==
    /\ windowWidth' = width
    /\ UNCHANGED <<resolverVars, elements, lastRun, clickmapsEnabled, fetchVars, mountVars, lifecycleVars,
                   rawHeatmap, heatmapScrollY, heatmapFixedPositionMode>>

NextProjector ==
    \/ \E scrollY \in ScrollYs : setHeatmapScrollY(scrollY)
    \/ \E mode \in FixedPositionModes : setHeatmapFixedPositionMode(mode)
    \/ \E width \in WindowWidths : WindowResized(width)

SpecProjector == InitProjector /\ [][NextProjector]_vars

----------------------------------------------------------------------------
(* Viewport range: the `viewportRange` selector.  Numbers that need not be *)
(* whole are fractions num/den with den > 0.                               *)

\* largest window width is 100 * MaxWidthSteps
MaxWidthSteps == 12

ViewportWidths == (0..MaxWidthSteps) \cup {100 * k : k \in 0..MaxWidthSteps}

Denominators == {1, 2, 3, 5, 10}

\* viewportAccuracy?: number -- the fractions of [0, 1], two values outside
\* it, and undefined
Accuracies ==
    {Fraction(p[1], p[2]) : p \in {q \in (0..10) \X Denominators : q[1] <= q[2]}}
        \cup {Fraction(-1, 2), Fraction(3, 2), UndefinedNumber}

\* heatmapFilters.viewportAccuracy ?? 0.2
ViewportAccuracy(filters) ==
    IF filters.viewportAccuracy.undefined THEN Fraction(1, 5) ELSE filters.viewportAccuracy

\* mutant: extraPixels = windowWidth * viewportAccuracy
ExtraPixelsOfAccuracy(filters, width) ==
    Fraction(width * ViewportAccuracy(filters).num, ViewportAccuracy(filters).den)

\* extraPixels = windowWidth - windowWidth * viewportAccuracy
ExtraPixels(filters, width) ==
    Fraction(width * ViewportAccuracy(filters).den - width * ViewportAccuracy(filters).num,
             ViewportAccuracy(filters).den)

\* Math.max(0, windowWidth - extraPixels)
MinWidth(width, extraPixels) ==
    IF width * extraPixels.den - extraPixels.num < 0 THEN Fraction(0, 1)
    ELSE Fraction(width * extraPixels.den - extraPixels.num, extraPixels.den)

\* mutant: the extra pixels are taken off at the upper end too
MaxWidthNarrowed(width, extraPixels) ==
    Fraction(width * extraPixels.den - extraPixels.num, extraPixels.den)

\* windowWidth + extraPixels
MaxWidth(width, extraPixels) ==
    Fraction(width * extraPixels.den + extraPixels.num, extraPixels.den)

\* the object the selector returns
RangeOf(minWidth, maxWidth) ==
    [min |-> MathRound(minWidth.num, minWidth.den),
     max |-> MathRound(maxWidth.num, maxWidth.den)]

\* the `viewportRange` selector
ViewportRange(filters, width) ==
    RangeOf(MinWidth(width, ExtraPixels(filters, width)),
            MaxWidth(width, ExtraPixels(filters, width)))

viewportRange == ViewportRange(heatmapFilters, windowWidth)

FiltersWithAccuracy(accuracy) == [InitialHeatmapFilters EXCEPT !.viewportAccuracy = accuracy]

InitViewport ==
    /\ IdleMount
    /\ LifecycleAfterMount
    /\ href = "/a"
    /\ elements = <<>>
    /\ IdleResolver
    /\ IdleClickmaps
    /\ rawHeatmap = NullHeatmap
    /\ heatmapScrollY = 0
    /\ heatmapFixedPositionMode = "fixed"
    /\ windowWidth \in ViewportWidths
    /\ wildcardHref = href
    /\ commonFilters = InitialCommonFilters
    /\ heatmapFilters \in {FiltersWithAccuracy(a) : a \in Accuracies}
    /\ heatmapEnabled = FALSE
    /\ canLoadMoreElementStats = TRUE
    /\ waiting = <<>>
    /\ inFlight = <<>>
    /\ effects = <<>>
    /\ burst = NoBurst
    /\ heatmapFrom = "none"

NextViewport == \E width \in ViewportWidths : WindowResized(width)

SpecViewport == InitViewport /\ [][NextViewport]_vars

----------------------------------------------------------------------------
(* Fetch orchestrator: the listeners, the two loaders and the reducers     *)
(* they drive.  A listener invocation suspended in `await breakpoint(ms)`  *)
(* is an entry of `waiting`; a request whose response is awaited is an     *)
(* entry of `inFlight`.  An entry is `latest` until its listener is        *)
(* invoked again: the breakpoint of an entry that is not latest throws.    *)
(* The delays are not measured: a suspended invocation may wake at any     *)
(* later step, but never before an earlier one that asked for a delay no   *)
(* longer than its own.                                                    *)

\* most listener invocations suspended at once
MaxWaiting == 3
\* most requests in flight at once
MaxInFlight == 2

WildcardHrefs == {"/a", "/*"}
\* the date filters the user applies
CommonFilterStates == {InitialCommonFilters}
HeatmapTypes == {"click", "scrolldepth", "undefined"}

\* the sequence s without its element k
Without(s, k) == SubSeq(s, 1, k - 1) \o SubSeq(s, k + 1, Len(s))

Invocation(listener, delayMs, lastTrigger) ==
    [listener |-> listener, delayMs |-> delayMs, latest |-> TRUE, lastTrigger |-> lastTrigger]

\* the listener is invoked again: the breakpoints of its suspended
\* invocations will throw
Supersede(w, listener) ==
    [k \in 1..Len(w) |->
        IF w[k].listener = listener THEN [w[k] EXCEPT !.latest = FALSE] ELSE w[k]]

\* mutant: an invocation leaves the earlier ones of its listener alone
InvokeBeside(w, listener, delayMs, lastTrigger) ==
    Append(w, Invocation(listener, delayMs, lastTrigger))

\* actions.<listener>(delayMs): the listener runs up to its first await
Invoke(w, listener, delayMs, lastTrigger) ==
    Append(Supersede(w, listener), Invocation(listener, delayMs, lastTrigger))

\* timers expire in the order of their deadlines
MayWake(i) == \A k \in 1..(i - 1) : waiting[k].delayMs > waiting[i].delayMs

\* the burst of triggers: it goes on while the invocation made for the last
\* trigger is still suspended, and it is followed from a state with nothing
\* suspended
BurstContinues == \E k \in 1..Len(waiting) : waiting[k].lastTrigger

ClearLast(w) == [k \in 1..Len(w) |-> [w[k] EXCEPT !.lastTrigger = FALSE]]

BurstAfterTrigger ==
    IF BurstContinues THEN burst
    ELSE IF waiting = <<>> THEN [active |-> TRUE, requests |-> 0]
    ELSE NoBurst

BurstAfterRequest ==
    IF burst.active THEN [burst EXCEPT !.requests = IF @ < 2 THEN @ + 1 ELSE 2] ELSE burst

\* mutant: the parameters are those of the page the logic was mounted on
HeatmapParamsOfMount ==
    [type |-> heatmapFilters.type,
     date_from |-> commonFilters.date_from,
     date_to |-> commonFilters.date_to,
     url_exact |-> "/a",
     url_pattern |-> "undefined",
     viewport_width_min |-> viewportRange.min,
     viewport_width_max |-> viewportRange.max,
     aggregation |-> heatmapFilters.aggregation]

\* the query parameters of the heatmap request (223-241)
HeatmapParams ==
    [type |-> heatmapFilters.type,
     date_from |-> commonFilters.date_from,
     date_to |-> commonFilters.date_to,
     url_exact |-> IF wildcardHref = href THEN href ELSE "undefined",
     url_pattern |-> IF wildcardHref # href THEN wildcardHref ELSE "undefined",
     viewport_width_min |-> viewportRange.min,
     viewport_width_max |-> viewportRange.max,
     aggregation |-> heatmapFilters.aggregation]

\* the query parameters of the first page of element stats (164-187): the
\* $current_url property is matched exactly or by the pattern's regex
ElementStatsParams ==
    [type |-> "undefined",
     date_from |-> commonFilters.date_from,
     date_to |-> commonFilters.date_to,
     url_exact |-> IF wildcardHref = href THEN href ELSE "undefined",
     url_pattern |-> IF wildcardHref # href THEN wildcardHref ELSE "undefined",
     viewport_width_min |-> -1,
     viewport_width_max |-> -1,
     aggregation |-> "undefined"]

\* a continuation URL is used as provided
NoParams ==
    [type |-> "undefined", date_from |-> "undefined", date_to |-> "undefined",
     url_exact |-> "undefined", url_pattern |-> "undefined",
     viewport_width_min |-> -1, viewport_width_max |-> -1, aggregation |-> "undefined"]

\* toolbarFetch(...)
RequestSent(pipeline, url, params) ==
    [kind |-> "request", pipeline |-> pipeline, url |-> url, params |-> params]

\* toolbarConfigLogic.actions.authenticate()
Authenticate ==
    [kind |-> "authenticate", pipeline |-> "undefined", url |-> "undefined", params |-> NoParams]

\* the loader is dispatched again: the breakpoints of its earlier
\* invocations will throw
SupersedeLoads(f, pipeline) ==
    [k \in 1..Len(f) |->
        IF f[k].pipeline = pipeline THEN [f[k] EXCEPT !.latest = FALSE] ELSE f[k]]

\* the loader runs up to `await toolbarFetch(...)`
Dispatched(f, pipeline) ==
    Append(SupersedeLoads(f, pipeline), [pipeline |-> pipeline, latest |-> TRUE])

\* variables no listener, loader or reducer of the orchestrator writes
pageVars == <<mountVars, lifecycleVars, matchLinksByHref, cache, elements, lastRun, heatmapScrollY,
              heatmapFixedPositionMode>>

\* actions.getElementStats(url): the loader starts a request
GetElementStats(w, url, params) ==
    /\ Len(inFlight) < MaxInFlight
    /\ waiting' = w
    /\ inFlight' = Dispatched(inFlight, "elementStats")
    /\ effects' = <<RequestSent("elementStats", url, params)>>
    /\ UNCHANGED <<elementStats, rawHeatmap, heatmapEnabled, canLoadMoreElementStats,
                   burst, heatmapFrom>>

\* actions.loadHeatmap(type): the loader starts a request
LoadHeatmap(w, type) ==
    /\ Len(inFlight) < MaxInFlight
    /\ waiting' = w
    /\ inFlight' = Dispatched(inFlight, "heatmap")
    /\ effects' = <<RequestSent("heatmap", "default", HeatmapParams)>>
    /\ burst' = BurstAfterRequest
    /\ UNCHANGED <<elementStats, rawHeatmap, heatmapEnabled, canLoadMoreElementStats,
                   heatmapFrom>>

\* a listener returns without dispatching anything
NothingDispatched(w) ==
    /\ waiting' = w
    /\ effects' = <<>>
    /\ UNCHANGED <<elementStats, rawHeatmap, heatmapEnabled, canLoadMoreElementStats,
                   inFlight, burst, heatmapFrom>>

\* listener loadAllEnabled, after `await breakpoint(delayMs)`
WakeLoadAllEnabled(i) ==
    /\ waiting[i].listener = "loadAllEnabled"
    /\ MayWake(i)
    /\ waiting[i].latest => Len(waiting) < MaxWaiting
    /\ IF waiting[i].latest
       THEN NothingDispatched(Invoke(Invoke(Without(waiting, i), "maybeLoadHeatmap", 0, FALSE),
                                     "maybeLoadClickmap", 0, FALSE))
       ELSE NothingDispatched(Without(waiting, i))
    /\ UNCHANGED <<href, wildcardHref, commonFilters, heatmapFilters, clickmapsEnabled,
                   windowWidth, pageVars>>

\* listener maybeLoadClickmap, after `await breakpoint(delayMs)`
WakeMaybeLoadClickmap(i) ==
    /\ waiting[i].listener = "maybeLoadClickmap"
    /\ MayWake(i)
    /\ IF waiting[i].latest /\ heatmapEnabled /\ clickmapsEnabled
       THEN GetElementStats(Without(waiting, i), "default", ElementStatsParams)
       ELSE NothingDispatched(Without(waiting, i))
    /\ UNCHANGED <<href, wildcardHref, commonFilters, heatmapFilters, clickmapsEnabled,
                   windowWidth, pageVars>>

\* listener maybeLoadHeatmap, after `await breakpoint(delayMs)`
WakeMaybeLoadHeatmap(i) ==
    /\ waiting[i].listener = "maybeLoadHeatmap"
    /\ MayWake(i)
    /\ IF /\ waiting[i].latest
          /\ heatmapEnabled
          /\ heatmapFilters.enabled
          /\ heatmapFilters.type # "undefined"
       THEN LoadHeatmap(Without(waiting, i), heatmapFilters.type)
       ELSE NothingDispatched(Without(waiting, i))
    /\ UNCHANGED <<href, wildcardHref, commonFilters, heatmapFilters, clickmapsEnabled,
                   windowWidth, pageVars>>

\* a state change that reloads: the listener of the action, or the
\* subscription, invokes a debounced listener
Triggered(listener, delayMs) ==
    /\ Len(waiting) < MaxWaiting
    /\ waiting' = Invoke(ClearLast(waiting), listener, delayMs, TRUE)
    /\ burst' = BurstAfterTrigger
    /\ effects' = <<>>
    /\ UNCHANGED <<inFlight, elementStats, heatmapEnabled, canLoadMoreElementStats>>

\* listener setHref
setHref(h) ==
    /\ href' = h
    /\ Triggered("loadAllEnabled", 0)
    /\ UNCHANGED <<wildcardHref, commonFilters, heatmapFilters, clickmapsEnabled,
                   windowWidth, rawHeatmap, heatmapFrom, pageVars>>

\* listener setWildcardHref
setWildcardHref(w) ==
    /\ wildcardHref' = w
    /\ Triggered("loadAllEnabled", 1000)
    /\ UNCHANGED <<href, commonFilters, heatmapFilters, clickmapsEnabled,
                   windowWidth, rawHeatmap, heatmapFrom, pageVars>>

\* reducer commonFilters and listener setCommonFilters
setCommonFilters(filters) ==
    /\ commonFilters' = filters
    /\ Triggered("loadAllEnabled", 200)
    /\ UNCHANGED <<href, wildcardHref, heatmapFilters, clickmapsEnabled,
                   windowWidth, rawHeatmap, heatmapFrom, pageVars>>

\* windowValues and subscription viewportRange: the window is resized, the
\* selector gives a new range
ViewportResized(width) ==
    /\ width # windowWidth
    /\ windowWidth' = width
    /\ Triggered("maybeLoadHeatmap", 500)
    /\ UNCHANGED <<href, wildcardHref, commonFilters, heatmapFilters, clickmapsEnabled,
                   rawHeatmap, heatmapFrom, pageVars>>

\* Partial<HeatmapFilters> with one key
Patch(key, enabled, type, viewportAccuracy) ==
    [key |-> key, enabled |-> enabled, type |-> type, viewportAccuracy |-> viewportAccuracy]

\* patchHeatmapFilters({ type })
TypePatches == {Patch("type", TRUE, t, UndefinedNumber) : t \in HeatmapTypes}

\* reducer heatmapFilters, patchHeatmapFilters: ({ ...state, ...filters })
PatchedFilters(state, filters) ==
    IF filters.key = "enabled" THEN [state EXCEPT !.enabled = filters.enabled]
    ELSE IF filters.key = "type" THEN [state EXCEPT !.type = filters.type]
    ELSE [state EXCEPT !.viewportAccuracy = filters.viewportAccuracy]

\* the two invocations a change of heatmapFilters makes, the later one last
TriggeredTwice(listener, firstMs, thenMs) ==
    /\ Len(waiting) + 2 <= MaxWaiting
    /\ waiting' = Invoke(Invoke(ClearLast(waiting), listener, firstMs, FALSE),
                         listener, thenMs, TRUE)
    /\ burst' = BurstAfterTrigger
    /\ effects' = <<>>
    /\ UNCHANGED <<inFlight, elementStats, heatmapEnabled, canLoadMoreElementStats>>

\* actions.loadHeatmapSuccess({ results: [] })
HeatmapCleared ==
    /\ rawHeatmap' = [isNull |-> FALSE, results |-> <<>>]
    /\ heatmapFrom' = "cleared"

\* reducer heatmapFilters, listener patchHeatmapFilters and subscription
\* viewportRange (the reducer's new object gives a new range object); the
\* order in which the listener and the subscription run is left open
patchHeatmapFilters(filters, subscriptionFirst) ==
    /\ heatmapFilters' = PatchedFilters(heatmapFilters, filters)
    /\ IF filters.key = "type" /\ filters.type # "undefined"
       THEN HeatmapCleared
       ELSE UNCHANGED <<rawHeatmap, heatmapFrom>>
    /\ IF subscriptionFirst
       THEN TriggeredTwice("maybeLoadHeatmap", 500, 200)
       ELSE TriggeredTwice("maybeLoadHeatmap", 200, 500)
    /\ UNCHANGED <<href, wildcardHref, commonFilters, clickmapsEnabled, windowWidth, pageVars>>

\* reducer heatmapFilters, setHeatmapFilters, and subscription viewportRange
setHeatmapFilters(filters) ==
    /\ heatmapFilters' = filters
    /\ Triggered("maybeLoadHeatmap", 500)
    /\ UNCHANGED <<href, wildcardHref, commonFilters, clickmapsEnabled, windowWidth,
                   rawHeatmap, heatmapFrom, pageVars>>

\* toolbarPosthogJS.capture('toolbar mode triggered', { mode: 'heatmap', enabled })
Captured(enabled) ==
    [kind |-> "capture", pipeline |-> "undefined",
     url |-> IF enabled THEN "enabled" ELSE "disabled", params |-> NoParams]

\* reducer heatmapEnabled and listener enableHeatmap
enableHeatmap ==
    /\ Len(waiting) < MaxWaiting
    /\ heatmapEnabled' = TRUE
    /\ waiting' = Invoke(waiting, "loadAllEnabled", 0, FALSE)
    /\ burst' = NoBurst
    /\ effects' = <<Captured(TRUE)>>
    /\ UNCHANGED <<href, wildcardHref, commonFilters, heatmapFilters, clickmapsEnabled,
                   windowWidth, elementStats, rawHeatmap, canLoadMoreElementStats, inFlight,
                   heatmapFrom, pageVars>>

\* reducer heatmapEnabled and listener disableHeatmap: resetElementStats
disableHeatmap ==
    /\ heatmapEnabled' = FALSE
    /\ elementStats' = emptyElementsStatsPages
    /\ effects' = <<Captured(FALSE)>>
    /\ UNCHANGED <<href, wildcardHref, commonFilters, heatmapFilters, clickmapsEnabled,
                   windowWidth, rawHeatmap, canLoadMoreElementStats, waiting, inFlight,
                   burst, heatmapFrom, pageVars>>

\* reducer clickmapsEnabled and listener toggleClickmapsEnabled
toggleClickmapsEnabled(enabled) ==
    /\ clickmapsEnabled' = ClickmapsEnabledReducer(clickmapsEnabled, enabled)
    /\ IF ClickmapsEnabledReducer(clickmapsEnabled, enabled)
       THEN GetElementStats(waiting, "default", ElementStatsParams)
       ELSE NothingDispatched(waiting)
    /\ UNCHANGED <<href, wildcardHref, commonFilters, heatmapFilters, windowWidth, pageVars>>

\* mutant: only null is no token
HasNextUnlessNull(stats) == ~stats.isNull /\ stats.next # "null"

\* values.elementStats?.next is a non-empty string
HasNext(stats) == ~stats.isNull /\ stats.next \notin {"null", "undefined", ""}

\* listener loadMoreElementStats
loadMoreElementStats ==
    /\ IF HasNext(elementStats)
       THEN GetElementStats(waiting, elementStats.next, NoParams)
       ELSE NothingDispatched(waiting)
    /\ UNCHANGED <<href, wildcardHref, commonFilters, heatmapFilters, clickmapsEnabled,
                   windowWidth, pageVars>>

\* a response: its status and its body
Response(status, body) == [status |-> status, body |-> body]

ClickEvent == [elements |-> <<DescLink>>, count |-> 1, type |-> "$autocapture", hash |-> "h1"]
RageEvent == [elements |-> <<DescApp>>, count |-> MaxCount, type |-> "$rageclick", hash |-> "h2"]

\* the body of an element-stats response: a page, JSON without a results
\* array, or no JSON at all
StatsBody(kind, results, next) ==
    [kind |-> kind, results |-> results, next |-> next, previous |-> "null"]

StatsBodies ==
    {StatsBody("page", r, n) : r \in {<<>>, <<ClickEvent>>, <<RageEvent>>},
                               n \in {"null", "/next"}}
        \cup {StatsBody("noResults", <<>>, "null"), StatsBody("notJson", <<>>, "null")}

\* mutant: a success also resets the enabled flag
GetElementStatsSuccessDisabling(page) ==
    /\ elementStats' = page
    /\ canLoadMoreElementStats' = (page.next # "null")
    /\ heatmapEnabled' = FALSE

\* reducers on getElementStatsSuccess
GetElementStatsSuccess(page) ==
    /\ elementStats' = page
    /\ canLoadMoreElementStats' = (page.next # "null")
    /\ UNCHANGED heatmapEnabled

\* mutant: a failure leaves canLoadMoreElementStats as it was
GetElementStatsFailureStuck ==
    /\ heatmapEnabled' = FALSE
    /\ UNCHANGED <<elementStats, canLoadMoreElementStats>>

\* reducers on getElementStatsFailure
GetElementStatsFailure ==
    /\ canLoadMoreElementStats' = TRUE
    /\ heatmapEnabled' = FALSE
    /\ UNCHANGED elementStats

\* breakpoint() throws: the loader ends without success or failure
Discarded == UNCHANGED <<elementStats, canLoadMoreElementStats, heatmapEnabled>>

\* mutant: the page replaces what was accumulated
AccumulatedFresh(stats, body) ==
    [isNull |-> FALSE, results |-> body.results,
     next |-> body.next, previous |-> body.previous]

\* results: [...(values.elementStats?.results || []), ...paginatedResults.results]
Accumulated(stats, body) ==
    [isNull |-> FALSE, results |-> stats.results \o body.results,
     next |-> body.next, previous |-> body.previous]

\* mutant: a 403 is answered by authenticating twice
AuthenticatedTwice(status) == IF status = 403 THEN <<Authenticate, Authenticate>> ELSE <<>>

\* if (response.status === 403) toolbarConfigLogic.actions.authenticate()
Authenticated(status) == IF status = 403 THEN <<Authenticate>> ELSE <<>>

\* kea-loaders dispatches <loader>Success with what the loader returns, or
\* <loader>Failure when it throws anything but a breakpoint
Completed(action, pipeline) ==
    [kind |-> action, pipeline |-> pipeline, url |-> "undefined", params |-> NoParams]

\* what the loader does to the outside from the response on
LoaderEnded(status, action, pipeline) ==
    effects' = Authenticated(status) \o <<Completed(action, pipeline)>>

\* mutant: breakpoint() never throws
StaleStatsKept(request, status, body) == FALSE

\* the response is dropped at breakpoint(): it is not a 403, its body is
\* JSON, and getElementStats has been dispatched again
StaleStats(request, status, body) ==
    status # 403 /\ body.kind # "notJson" /\ ~request.latest

\* the responses of the element-stats endpoint: the loader reads the body
\* of every response that is not a 403
StatsResponses ==
    {Response(200, body) : body \in StatsBodies}
        \cup {Response(403, StatsBody("noResults", <<>>, "null")),
              Response(500, StatsBody("notJson", <<>>, "null"))}

\* loader getElementStats, from the response on
ElementStatsResponse(i, status, body) ==
    /\ inFlight[i].pipeline = "elementStats"
    /\ Len(elementStats.results) + Len(body.results) <= MaxEvents
    /\ inFlight' = Without(inFlight, i)
    /\ IF status = 403
       THEN /\ LoaderEnded(status, "getElementStatsSuccess", "elementStats")
            /\ GetElementStatsSuccess(emptyElementsStatsPages)
       ELSE IF body.kind = "notJson"
       THEN /\ LoaderEnded(status, "getElementStatsFailure", "elementStats")
            /\ GetElementStatsFailure
       ELSE IF StaleStats(inFlight[i], status, body)
       THEN /\ effects' = <<>>
            /\ Discarded
       ELSE IF body.kind = "noResults"
       THEN /\ LoaderEnded(status, "getElementStatsFailure", "elementStats")
            /\ GetElementStatsFailure
       ELSE /\ LoaderEnded(status, "getElementStatsSuccess", "elementStats")
            /\ GetElementStatsSuccess(Accumulated(elementStats, body))
    /\ UNCHANGED <<href, wildcardHref, commonFilters, heatmapFilters, clickmapsEnabled,
                   windowWidth, rawHeatmap, waiting, burst, heatmapFrom, pageVars>>

SampleRecord ==
    [hasScrollDepthBucket |-> FALSE, scroll_depth_bucket |-> 0, cumulative_count |-> 0,
     count |-> 1, pointer_relative_x |-> [num |-> 1, den |-> 2], pointer_y |-> 40,
     pointer_target_fixed |-> FALSE]

\* the body of a heatmap response
HeatmapBody(kind, results) == [kind |-> kind, results |-> results]

HeatmapBodies ==
    {HeatmapBody("results", <<>>), HeatmapBody("results", <<SampleRecord>>),
     HeatmapBody("notJson", <<>>)}

\* the responses of the heatmap endpoint: the loader reads the body of a 200
HeatmapResponses ==
    {Response(200, body) : body \in HeatmapBodies}
        \cup {Response(403, HeatmapBody("notJson", <<>>)),
              Response(500, HeatmapBody("results", <<SampleRecord>>))}

\* mutant: the status of the response is not looked at
HeatmapLoadedWhateverStatus(status, body) == body.kind = "results"

\* the loader returns `await response.json()`: the status is 200 and the
\* body is JSON
HeatmapLoaded(status, body) == status = 200 /\ body.kind = "results"

\* loader loadHeatmap, from the response on: no breakpoint is checked
HeatmapResponse(i, status, body) ==
    /\ inFlight[i].pipeline = "heatmap"
    /\ inFlight' = Without(inFlight, i)
    /\ IF HeatmapLoaded(status, body)
       THEN /\ LoaderEnded(status, "loadHeatmapSuccess", "heatmap")
            /\ rawHeatmap' = [isNull |-> FALSE, results |-> body.results]
            /\ heatmapFrom' = IF inFlight[i].latest THEN "latest" ELSE "stale"
       ELSE /\ LoaderEnded(status, "loadHeatmapFailure", "heatmap")
            /\ UNCHANGED <<rawHeatmap, heatmapFrom>>
    /\ UNCHANGED <<href, wildcardHref, commonFilters, heatmapFilters, clickmapsEnabled,
                   windowWidth, elementStats, heatmapEnabled, canLoadMoreElementStats,
                   waiting, burst, pageVars>>

\* afterMount: actions.loadAllEnabled(); clickmapsEnabled is persisted
InitFetch(persistedClickmapsEnabled) ==
    /\ IdleMount
    /\ LifecycleAfterMount
    /\ href = "/a"
    /\ elements = <<>>
    /\ IdleResolver
    /\ IdleProjector
    /\ clickmapsEnabled = persistedClickmapsEnabled
    /\ wildcardHref = href
    /\ commonFilters = InitialCommonFilters
    /\ heatmapFilters = InitialHeatmapFilters
    /\ heatmapEnabled = FALSE
    /\ canLoadMoreElementStats = TRUE
    /\ waiting = <<Invocation("loadAllEnabled", 0, FALSE)>>
    /\ inFlight = <<>>
    /\ effects = <<>>
    /\ burst = NoBurst
    /\ heatmapFrom = "none"

Wakes ==
    \E i \in 1..Len(waiting) :
        \/ WakeLoadAllEnabled(i)
        \/ WakeMaybeLoadClickmap(i)
        \/ WakeMaybeLoadHeatmap(i)

\* the debounced listeners under every trigger, with clickmaps off and the
\* heatmap endpoint answering 200
NextDebounce ==
    \/ enableHeatmap
    \/ \E h \in Hrefs : setHref(h)
    \/ \E w \in WildcardHrefs : setWildcardHref(w)
    \/ \E filters \in CommonFilterStates : setCommonFilters(filters)
    \/ \E filters \in TypePatches \ {Patch("type", TRUE, "undefined", UndefinedNumber)},
          subscriptionFirst \in BOOLEAN :
            patchHeatmapFilters(filters, subscriptionFirst)
    \/ \E width \in WindowWidths : ViewportResized(width)
    \/ Wakes
    \/ \E i \in 1..Len(inFlight) : HeatmapResponse(i, 200, HeatmapBody("results", <<>>))

SpecDebounce == InitFetch(FALSE) /\ [][NextDebounce]_vars

\* the filters setHeatmapFilters is called with: the initial ones with
\* either type
FilterStates == {[InitialHeatmapFilters EXCEPT !.type = t] : t \in {"click", "scrolldepth"}}

\* the heatmap type is changed by either action while heatmaps are loaded
NextFilters ==
    \/ enableHeatmap
    \/ \E filters \in TypePatches \ {Patch("type", TRUE, "undefined", UndefinedNumber)},
          subscriptionFirst \in BOOLEAN :
            patchHeatmapFilters(filters, subscriptionFirst)
    \/ \E filters \in FilterStates : setHeatmapFilters(filters)
    \/ Wakes
    \/ \E i \in 1..Len(inFlight) :
            HeatmapResponse(i, 200, HeatmapBody("results", <<SampleRecord>>))

SpecFilters == InitFetch(FALSE) /\ [][NextFilters]_vars

\* the heatmap type is changed from 'click' by patchHeatmapFilters, and the
\* responses to the requests made before the change arrive before a
\* suspended listener wakes again: no request is made for the new type
NextTypePatched ==
    \/ enableHeatmap
    \/ /\ heatmapFilters.type = "click"
       /\ \E filters \in TypePatches \ {Patch("type", TRUE, "undefined", UndefinedNumber)},
             subscriptionFirst \in BOOLEAN :
               patchHeatmapFilters(filters, subscriptionFirst)
    \/ heatmapFilters.type = "click" /\ Wakes
    \/ \E i \in 1..Len(inFlight) :
            HeatmapResponse(i, 200, HeatmapBody("results", <<SampleRecord>>))

SpecTypePatched == InitFetch(FALSE) /\ [][NextTypePatched]_vars

\* setCommonFilters({ date_from: '-7d' })
LastWeek == [InitialCommonFilters EXCEPT !.date_from = "-7d"]

\* a trigger leaves room for the two invocations loadAllEnabled makes
RoomToTrigger == Len(waiting) + 1 < MaxWaiting

\* every kind of state change that reloads the heatmap, each changing the
\* state: the page is left once, the pattern and the dates are set once, the
\* window grows
NextReload ==
    \/ ~heatmapEnabled /\ enableHeatmap
    \/ \E h \in Hrefs \ {href} : href = "/a" /\ RoomToTrigger /\ setHref(h)
    \/ \E w \in WildcardHrefs \ {wildcardHref} :
            wildcardHref = "/a" /\ RoomToTrigger /\ setWildcardHref(w)
    \/ commonFilters = InitialCommonFilters /\ RoomToTrigger /\ setCommonFilters(LastWeek)
    \/ \E width \in WindowWidths :
            width > windowWidth /\ RoomToTrigger /\ ViewportResized(width)
    \/ Wakes
    \/ \E i \in 1..Len(inFlight) : HeatmapResponse(i, 200, HeatmapBody("results", <<>>))

\* every timer expires and every request is answered
FairReload ==
    /\ WF_vars(Wakes)
    /\ WF_vars(\E i \in 1..Len(inFlight) :
                  HeatmapResponse(i, 200, HeatmapBody("results", <<>>)))

SpecReload == InitFetch(FALSE) /\ [][NextReload]_vars /\ FairReload

\* the two loaders under every response
NextLoaders ==
    \/ enableHeatmap
    \/ disableHeatmap
    \/ \E enabled \in {"undefined", "true", "false"} : toggleClickmapsEnabled(enabled)
    \/ loadMoreElementStats
    \/ Wakes
    \/ \E i \in 1..Len(inFlight) :
            \/ \E r \in StatsResponses : ElementStatsResponse(i, r.status, r.body)
            \/ \E r \in HeatmapResponses : HeatmapResponse(i, r.status, r.body)

SpecLoaders == InitFetch(TRUE) /\ [][NextLoaders]_vars

----------------------------------------------------------------------------
(* permanentlyMount (kea-logic-builders.ts).  kea counts the mounts of a   *)
(* logic: mount() adds one and hands back an unmount function that takes   *)
(* one away, once; the afterMount event runs when the count leaves 0.      *)

\* mutant: the extra mount is never made
ExtraMountsNone(mounted) == 0

\* if (!logic.cache._permanentMount) { ...; logic.wrapper.mount() }: the
\* unmount function of this mount is dropped
ExtraMounts(mounted) == IF mounted THEN 0 ELSE 1

\* the afterMount event of a logic built with permanentlyMount(afterMountFn),
\* run when the count has become `count`
AfterMount(l, count) ==
    /\ afterMountFnRuns' = [afterMountFnRuns EXCEPT ![l] = IF @ < 2 THEN @ + 1 ELSE @]
    /\ permanentMount' = [permanentMount EXCEPT ![l] = TRUE]
    /\ counter' = [counter EXCEPT ![l] = count + ExtraMounts(permanentMount[l])]

\* a user mounts the logic and keeps the unmount function
Mount(l, u) ==
    /\ u \notin holders[l]
    /\ holders' = [holders EXCEPT ![l] = @ \cup {u}]
    /\ IF counter[l] = 0
       THEN AfterMount(l, 1)
       ELSE /\ counter' = [counter EXCEPT ![l] = @ + 1]
            /\ UNCHANGED <<permanentMount, afterMountFnRuns>>
    /\ UNCHANGED <<toolbarVars, lifecycleVars>>

\* a user calls its unmount function
Unmount(l, u) ==
    /\ u \in holders[l]
    /\ holders' = [holders EXCEPT ![l] = @ \ {u}]
    /\ counter' = [counter EXCEPT ![l] = @ - 1]
    /\ UNCHANGED <<permanentMount, afterMountFnRuns, toolbarVars, lifecycleVars>>

InitMount ==
    /\ IdleMount
    /\ LifecycleAfterMount
    /\ href = "/a"
    /\ elements = <<>>
    /\ IdleResolver
    /\ IdleClickmaps
    /\ IdleProjector
    /\ IdleFetch

NextMount ==
    \/ \E l \in Logics, u \in Users : Mount(l, u)
    \/ \E l \in Logics, u \in Users : Unmount(l, u)

SpecMount == InitMount /\ [][NextMount]_vars

----------------------------------------------------------------------------
(* The lifecycle of heatmapLogic: afterMount registers the key listeners   *)
(* and the scroll polling timer, beforeUnmount takes them away.  kea runs  *)
(* afterMount when the mount count leaves 0 and beforeUnmount when it      *)
(* comes back to 0.  A listener function and a timer are known by the      *)
(* number of the afterMount run that made them.                            *)

\* most components holding heatmapLogic mounted at once
MaxLogicMounts == 2
\* most runs of afterMount
MaxCycles == 3

\* the scroll provider: (values.posthog as any)?.scrollManager?.scrollY()
ScrollProviders ==
    {[present |-> FALSE, scrollY |-> 0]} \cup {[present |-> TRUE, scrollY |-> y] : y \in ScrollYs}

\* ... ?? 0
PolledScrollY(provider) == IF provider.present THEN provider.scrollY ELSE 0

\* variables the lifecycle callbacks leave alone
restVars == <<href, matchLinksByHref, elementStats, cache, elements, lastRun, clickmapsEnabled,
              rawHeatmap, windowWidth, heatmapFixedPositionMode, wildcardHref, commonFilters,
              heatmapFilters, heatmapEnabled, canLoadMoreElementStats, inFlight, heatmapFrom,
              mountVars>>

\* an action dispatched by a callback
DispatchedAction(action) == <<Completed(action, "undefined")>>

\* afterMount: loadAllEnabled(), the two key listeners, the interval timer
HeatmapAfterMount ==
    /\ Len(waiting) < MaxWaiting
    /\ made < MaxCycles
    /\ made' = made + 1
    /\ waiting' = Invoke(waiting, "loadAllEnabled", 0, FALSE)
    /\ handles' = [keyDownListener |-> made + 1, keyUpListener |-> made + 1,
                   scrollCheckTimer |-> made + 1]
    /\ windowListeners' = [keydown |-> windowListeners.keydown \cup {made + 1},
                           keyup |-> windowListeners.keyup \cup {made + 1}]
    /\ intervals' = intervals \cup {made + 1}

\* mutant: the timer is left running
HeatmapBeforeUnmountKeepingTimer ==
    /\ windowListeners' = [keydown |-> windowListeners.keydown \ {handles.keyDownListener},
                           keyup |-> windowListeners.keyup \ {handles.keyUpListener}]
    /\ UNCHANGED <<intervals, made, handles, waiting>>

\* beforeUnmount: removeEventListener twice, clearInterval
HeatmapBeforeUnmount ==
    /\ windowListeners' = [keydown |-> windowListeners.keydown \ {handles.keyDownListener},
                           keyup |-> windowListeners.keyup \ {handles.keyUpListener}]
    /\ intervals' = intervals \ {handles.scrollCheckTimer}
    /\ UNCHANGED <<made, handles, waiting>>

\* a component mounts heatmapLogic
MountLogic ==
    /\ mountCount < MaxLogicMounts
    /\ mountCount' = mountCount + 1
    /\ IF mountCount = 0
       THEN HeatmapAfterMount
       ELSE UNCHANGED <<made, handles, windowListeners, intervals, waiting>>
    /\ effects' = <<>>
    /\ UNCHANGED <<restVars, heatmapScrollY, shiftPressed, burst>>

\* a component unmounts heatmapLogic
UnmountLogic ==
    /\ mountCount > 0
    /\ mountCount' = mountCount - 1
    /\ IF mountCount = 1
       THEN HeatmapBeforeUnmount
       ELSE UNCHANGED <<made, handles, windowListeners, intervals, waiting>>
    /\ effects' = <<>>
    /\ UNCHANGED <<restVars, heatmapScrollY, shiftPressed, burst>>

\* cache.keyDownListener / cache.keyUpListener, called with a keyboard event
ShiftAfter(type, shiftKey, pressed) ==
    IF type = "keydown" THEN (IF shiftKey /\ ~pressed THEN TRUE ELSE pressed)
    ELSE (IF ~shiftKey /\ pressed THEN FALSE ELSE pressed)

\* the window gets a keydown or keyup event: the registered listeners run
KeyEvent(type, shiftKey) ==
    /\ IF windowListeners[type] # {}
       THEN /\ shiftPressed' = ShiftAfter(type, shiftKey, shiftPressed)
            /\ effects' = IF ShiftAfter(type, shiftKey, shiftPressed) # shiftPressed
                          THEN DispatchedAction("setShiftPressed") ELSE <<>>
       ELSE /\ shiftPressed' = shiftPressed
            /\ effects' = <<>>
    /\ UNCHANGED <<restVars, heatmapScrollY, waiting, burst, mountCount, made, handles,
                   windowListeners, intervals>>

\* mutant: the polled offset is dispatched at every tick
ScrollCheckedAlways(scrollY) == DispatchedAction("setHeatmapScrollY")

\* if (values.heatmapScrollY !== scrollY) { actions.setHeatmapScrollY(scrollY) }
ScrollChecked(scrollY) ==
    IF heatmapScrollY # scrollY THEN DispatchedAction("setHeatmapScrollY") ELSE <<>>

\* the callback of interval timer t runs; reducer heatmapScrollY
ScrollCheck(t, provider) ==
    /\ t \in intervals
    /\ effects' = ScrollChecked(PolledScrollY(provider))
    /\ heatmapScrollY' = IF effects' # <<>> THEN PolledScrollY(provider) ELSE heatmapScrollY
    /\ UNCHANGED <<restVars, shiftPressed, waiting, burst, mountCount, made, handles,
                   windowListeners, intervals>>

InitLifecycle ==
    /\ IdleMount
    /\ LifecycleBeforeMount
    /\ href = "/a"
    /\ elements = <<>>
    /\ IdleResolver
    /\ IdleClickmaps
    /\ IdleProjector
    /\ IdleFetch

NextLifecycle ==
    \/ MountLogic
    \/ UnmountLogic
    \/ \E type \in {"keydown", "keyup"}, shiftKey \in BOOLEAN : KeyEvent(type, shiftKey)
    \/ \E t \in 1..MaxCycles, provider \in ScrollProviders : ScrollCheck(t, provider)
    \/ Wakes

SpecLifecycle == InitLifecycle /\ [][NextLifecycle]_vars

----------------------------------------------------------------------------
(* Properties of the Selector Resolver, checked under SpecResolver.        *)

Results == IF elementStats.isNull THEN <<>> ELSE elementStats.results

\* what the document itself answers for a selector now, whatever the memo holds
LiveMatches(sel) == QuerySelectorAllDeep(sel, CollectAllElementsDeep(href))

InnermostSelector(event) == <<SelectorAt(event, 0, matchLinksByHref)>>

UniqueInnermost(event) ==
    /\ Len(event.elements) > 0
    /\ ~InvalidSelector(InnermostSelector(event))
    /\ Len(LiveMatches(InnermostSelector(event))) = 1

InElements(entry) == \E j \in 1..Len(elements) : elements[j] = entry

RemoveAt(s, k) == SubSeq(s, 1, k - 1) \o SubSeq(s, k + 1, Len(s))

\* C1: an event whose innermost selector matches exactly one element of the
\* document, and whose innermost path element is not too simple, resolves to
\* exactly that element, and the resolver's output holds that entry.
C1_UniqueInnermostResolves ==
    /\ Len(lastRun) = Len(Results)
    /\ \A k \in 1..Len(Results) :
         LET event == Results[k]
         IN  (UniqueInnermost(event) /\ ~TooSimple(0, event.elements[1]))
             => LET entry == ResolvedElement(LiveMatches(InnermostSelector(event))[1], event,
                                             InnermostSelector(event)[1])
                IN  lastRun[k].found = <<entry>> /\ InElements(entry)

\* C1 witness: a link resolved by its href, after the resolver has run on another page
C1_Witness ==
    /\ cache.lastHref = "/a"
    /\ matchLinksByHref
    /\ \E k \in 1..Len(Results) :
         /\ UniqueInnermost(Results[k])
         /\ Results[k].elements[1] = DescLink
         /\ Len(lastRun[k].found) = 1
         /\ lastRun[k].found[1].element = 2

AllTriedMatchNothing(k) ==
    \A j \in 1..Len(lastRun[k].tried) :
        /\ ~InvalidSelector(lastRun[k].tried[j])
        /\ Len(LiveMatches(lastRun[k].tried[j])) = 0

\* C2: an event all of whose tried combined selectors match no element
\* produces no element and raises no error, its whole path has been tried, and
\* the events after it are still processed.
C2_NoMatchYieldsNothing ==
    /\ Len(lastRun) = Len(Results)
    /\ \A k \in 1..Len(Results) :
         AllTriedMatchNothing(k)
         => /\ lastRun[k].found = <<>>
            /\ ~lastRun[k].threw
            /\ Len(lastRun[k].tried) = Len(Results[k].elements)
            /\ \A m \in (k + 1)..Len(Results) :
                 Len(Results[m].elements) > 0 => Len(lastRun[m].tried) > 0

\* C2 witness: a path of several elements matching nothing, followed by an
\* event that resolves
C2_Witness ==
    \E k \in 1..Len(Results) :
        /\ Len(Results[k].elements) >= 2
        /\ AllTriedMatchNothing(k)
        /\ lastRun[k].found = <<>>
        /\ \E m \in (k + 1)..Len(Results) : Len(lastRun[m].found) = 1

StatsWithout(stats, k) == [stats EXCEPT !.results = RemoveAt(stats.results, k)]

SameButFor(k, without, out, run) ==
    /\ without.elements = out
    /\ without.perEvent = RemoveAt(run, k)

\* C3: in every evaluation, an event whose query throws produces no element,
\* every event is still processed, and the other events resolve exactly as
\* in an evaluation (from the same cache) of the list without that event.
C3_ThrowingEventIsIsolated ==
    [][\A k \in 1..Len(lastRun') :
          lastRun'[k].threw
          => /\ lastRun'[k].found = <<>>
             /\ Len(lastRun') = Len(Results')
             /\ SameButFor(k, ElementsSelector(StatsWithout(elementStats', k), href',
                                               matchLinksByHref', cache),
                           elements', lastRun')]_vars

\* C3 witness: the first event throws after a successful query, the next resolves
C3_Witness ==
    /\ Len(lastRun) = 2
    /\ lastRun[1].threw
    /\ Len(lastRun[1].tried) >= 2
    /\ Len(lastRun[2].found) = 1
    /\ Len(elements) = 1

\* C4 (as claimed): a too simple innermost element with a unique match drops
\* the event, whatever its ancestors match.
C4_TooSimpleDropsEvent ==
    \A k \in 1..Len(Results) :
        (UniqueInnermost(Results[k]) /\ TooSimple(0, Results[k].elements[1]))
        => lastRun[k].found = <<>>

\* C5 (as claimed): once a combined selector matches more than one element,
\* no further ancestor is tried and the event produces no element.
C5_MultipleMatchesAbandon ==
    \A k \in 1..Len(Results) :
        \A j \in 1..Len(lastRun[k].tried) :
            (~InvalidSelector(lastRun[k].tried[j]) /\ Len(LiveMatches(lastRun[k].tried[j])) > 1)
            => (j = Len(lastRun[k].tried) /\ lastRun[k].found = <<>>)

\* C5 (amended): a combined selector matching more than one element produces
\* no element by itself; if the path has a further ancestor, the next
\* selector tried is "<ancestor selector> > <that combined selector>", and an
\* element the event does produce is the single match of the last selector
\* tried.
C5_MultipleMatchesNarrow ==
    \A k \in 1..Len(Results) :
        \A j \in 1..Len(lastRun[k].tried) :
            LET tried == lastRun[k].tried
                event == Results[k]
            IN  (~InvalidSelector(tried[j]) /\ Len(LiveMatches(tried[j])) > 1)
                => /\ j < Len(event.elements)
                      => /\ Len(tried) > j
                         /\ tried[j + 1] = <<SelectorAt(event, j, matchLinksByHref)>> \o tried[j]
                   /\ lastRun[k].found # <<>>
                      => /\ j < Len(tried)
                         /\ LiveMatches(tried[Len(tried)]) = <<lastRun[k].found[1].element>>

\* C5 witness: a selector matching several elements, narrowed by the parent
C5_Witness ==
    \E k \in 1..Len(Results) :
        /\ Len(lastRun[k].tried) = 2
        /\ Len(LiveMatches(lastRun[k].tried[1])) > 1
        /\ Len(lastRun[k].found) = 1

EventMeta(x) == [count |-> x.count, hash |-> x.hash, type |-> x.type]

\* out is obtained from evs by dropping events, without reordering
RECURSIVE CarriesInOrder(_, _)
CarriesInOrder(out, evs) ==
    IF out = <<>> THEN TRUE
    ELSE IF evs = <<>> THEN FALSE
    ELSE \/ (EventMeta(Head(out)) = EventMeta(Head(evs)) /\ CarriesInOrder(Tail(out), Tail(evs)))
         \/ CarriesInOrder(out, Tail(evs))

RECURSIVE Flatten(_)
Flatten(ss) == IF ss = <<>> THEN <<>> ELSE Head(ss) \o Flatten(Tail(ss))

\* C6: the output has at most one entry per event, in the order of the
\* events, each carrying the count, hash and type of its event; it is never
\* longer than the event list.
C6_AtMostOnePerEventInOrder ==
    /\ Len(elements) <= Len(Results)
    /\ CarriesInOrder(elements, Results)
    /\ Len(lastRun) = Len(Results)
    /\ \A k \in 1..Len(lastRun) :
         /\ Len(lastRun[k].found) <= 1
         /\ lastRun[k].found # <<>> => EventMeta(lastRun[k].found[1]) = EventMeta(Results[k])
    /\ elements = Flatten([k \in 1..Len(lastRun) |-> lastRun[k].found])

\* C6 witness: two events of different type, the second one resolved alone
C6_Witness ==
    /\ Len(Results) = 2
    /\ Len(elements) = 1
    /\ lastRun[1].found = <<>>
    /\ elements[1].type = "$rageclick"
    /\ Results[1].type = "$autocapture"

----------------------------------------------------------------------------
(* Properties of the Element Aggregator, checked under SpecAggregator.     *)

\* sum of the counts of the given elements that trim to node t and whose
\* type is in types
RECURSIVE SumTrimmedTo(_, _, _)
SumTrimmedTo(elems, t, types) ==
    IF elems = <<>> THEN 0
    ELSE (IF TrimElement(Head(elems).element) = t /\ Head(elems).type \in types
          THEN Head(elems).count ELSE 0)
         + SumTrimmedTo(Tail(elems), t, types)

WholeCount == EventTypes
RageCount == {"$rageclick"}
OtherCount == EventTypes \ {"$rageclick"}

TrimsTo(t) == {k \in 1..Len(elements) : TrimElement(elements[k].element) = t}

EntriesOf(t) == {i \in 1..Len(countedElements) : countedElements[i].element = t}

\* C7: with clickmaps on, the elements that trim to one node give exactly one
\* entry, whose count is the sum of their counts, whose rageclickCount sums
\* the '$rageclick' ones and whose clickCount sums the others; no other entry
\* exists, and count = clickCount + rageclickCount in every entry.
C7_MergedCountsAreSums ==
    clickmapsEnabled =>
        /\ \A t \in Nodes :
             IF TrimsTo(t) = {} THEN EntriesOf(t) = {}
             ELSE /\ Cardinality(EntriesOf(t)) = 1
                  /\ \A i \in EntriesOf(t) :
                       /\ countedElements[i].count = SumTrimmedTo(elements, t, WholeCount)
                       /\ countedElements[i].rageclickCount = SumTrimmedTo(elements, t, RageCount)
                       /\ countedElements[i].clickCount = SumTrimmedTo(elements, t, OtherCount)
        /\ \A i \in 1..Len(countedElements) :
             /\ countedElements[i].element # NoNode
             /\ countedElements[i].count
                  = countedElements[i].clickCount + countedElements[i].rageclickCount

\* C7 witness: a click and a rage-click on different elements merged into one entry
C7_Witness ==
    /\ clickmapsEnabled
    /\ \E i \in 1..Len(countedElements) :
         /\ countedElements[i].clickCount > 0
         /\ countedElements[i].rageclickCount > 0
         /\ \E k \in TrimsTo(countedElements[i].element) :
              elements[k].element # countedElements[i].element

FirstSeen(t) == CHOOSE k \in TrimsTo(t) : \A m \in TrimsTo(t) : k <= m

\* C8: the output is sorted by count descending, entries of equal count are
\* in the order their nodes were first seen, and entry i has position i.
C8_SortedStableRanked ==
    /\ \A i \in 1..Len(countedElements) : countedElements[i].position = i
    /\ \A i, j \in 1..Len(countedElements) :
         i < j =>
           /\ countedElements[i].count >= countedElements[j].count
           /\ countedElements[i].count = countedElements[j].count
                => FirstSeen(countedElements[i].element) < FirstSeen(countedElements[j].element)

\* C8 witness: three entries, the one seen last moved to the front by its
\* count, the two of equal count left in first-seen order
C8_Witness ==
    /\ Len(countedElements) = 3
    /\ FirstSeen(countedElements[1].element) = 3
    /\ countedElements[1].count > countedElements[2].count
    /\ countedElements[2].count = countedElements[3].count
    /\ countedElements[2].element > countedElements[3].element

\* C9: with clickmaps off the output is empty, whatever the input, and so
\* elementCount, clickCount and highestClickCount are 0.
C9_ClickmapsOffIsEmpty ==
    ~clickmapsEnabled =>
        /\ countedElements = <<>>
        /\ elementCount = 0
        /\ clickCount = 0
        /\ highestClickCount = 0

\* C9 witness: clickmaps off over elements that would give entries
C9_Witness ==
    /\ ~clickmapsEnabled
    /\ \E k \in 1..Len(elements) : TrimElement(elements[k].element) # NoNode

----------------------------------------------------------------------------
(* Properties of the Heatmap Projector, checked under SpecProjector.       *)

RawResults == IF rawHeatmap.isNull THEN <<>> ELSE rawHeatmap.results

IsFixedRecord(r) == ~r.hasScrollDepthBucket /\ r.pointer_target_fixed

NotFixedRecord(r) == ~IsFixedRecord(r)

RecordValue(r) == IF r.hasScrollDepthBucket THEN r.cumulative_count ELSE r.count

RecordY(r) == IF r.hasScrollDepthBucket THEN r.scroll_depth_bucket ELSE r.pointer_y

\* C10: in 'hidden' mode the points are exactly those of the records that
\* are not fixed-position, one per record and in their order: no point comes
\* from a record with targetFixed = true.
C10_HiddenDropsFixedOnly ==
    heatmapFixedPositionMode = "hidden" =>
        LET kept == SelectSeq(RawResults, NotFixedRecord)
            data == heatmapJsData.data
        IN  /\ Len(data) = Len(kept)
            /\ \A j \in 1..Len(kept) :
                 /\ data[j].value = RecordValue(kept[j])
                 /\ data[j].y = RecordY(kept[j]) - heatmapScrollY

\* C10 witness: hidden mode over a fixed record followed by one that is not
C10_Witness ==
    /\ heatmapFixedPositionMode = "hidden"
    /\ Len(RawResults) = 2
    /\ IsFixedRecord(RawResults[1])
    /\ NotFixedRecord(RawResults[2])
    /\ RecordValue(RawResults[1]) # RecordValue(RawResults[2])
    /\ Len(heatmapJsData.data) = 1

\* the records a point is emitted for, in their order
KeptRecords ==
    IF heatmapFixedPositionMode = "hidden" THEN SelectSeq(RawResults, NotFixedRecord)
    ELSE RawResults

OnePointPerKeptRecord == Len(heatmapJsData.data) = Len(KeptRecords)

NearestTo(x, num, den, width) ==
    /\ 2 * den * x <= 2 * num * width + den
    /\ 2 * num * width + den < 2 * den * (x + 1)

\* C12: the point of a pointer record has x = round(pointer_relative_x *
\* windowWidth) and value = count; 0.5 at width 1200 gives 600.
C12_PointerXAndValue ==
    /\ OnePointPerKeptRecord
    /\ \A j \in 1..Len(KeptRecords) :
         ~KeptRecords[j].hasScrollDepthBucket =>
            /\ NearestTo(heatmapJsData.data[j].x, KeptRecords[j].pointer_relative_x.num,
                         KeptRecords[j].pointer_relative_x.den, windowWidth)
            /\ heatmapJsData.data[j].value = KeptRecords[j].count
            /\ (KeptRecords[j].pointer_relative_x = [num |-> 1, den |-> 2]
                    /\ windowWidth = 1200) => heatmapJsData.data[j].x = 600

\* C12 witness: relative x 0.5 at width 1200 gives 600, and relative x 2/3
\* at width 1000 is rounded up after a resize
C12_Witness ==
    /\ Len(RawResults) = 2
    /\ ~RawResults[1].hasScrollDepthBucket
    /\ ~RawResults[2].hasScrollDepthBucket
    /\ RawResults[1].pointer_relative_x = [num |-> 1, den |-> 2]
    /\ RawResults[2].pointer_relative_x = [num |-> 2, den |-> 3]
    /\ RawResults[2].count = MaxCount
    /\ Len(heatmapJsData.data) = 2
    /\ \/ windowWidth = 1200 /\ heatmapJsData.data[1].x = 600
       \/ windowWidth = 1000 /\ heatmapJsData.data[2].x = 667

C14_MaxOfEmittedMinZero ==
    /\ heatmapJsData.min = 0
    /\ OnePointPerKeptRecord
    /\ heatmapJsData.data = <<>> => heatmapJsData.max = 0
    /\ heatmapJsData.data # <<>> =>
         /\ \E j \in 1..Len(heatmapJsData.data) :
               heatmapJsData.data[j].value = heatmapJsData.max
         /\ \E j \in 1..Len(KeptRecords) : RecordValue(KeptRecords[j]) = heatmapJsData.max
    /\ \A j \in 1..Len(heatmapJsData.data) : heatmapJsData.data[j].value <= heatmapJsData.max
    /\ \A j \in 1..Len(KeptRecords) : RecordValue(KeptRecords[j]) <= heatmapJsData.max

\* C14 witness: in 'hidden' mode the largest value belongs to a fixed record
\* that is left out, and max is the value of the point that is kept
C14_Witness ==
    /\ heatmapFixedPositionMode = "hidden"
    /\ Len(RawResults) = 2
    /\ NotFixedRecord(RawResults[1])
    /\ IsFixedRecord(RawResults[2])
    /\ RecordValue(RawResults[2]) > RecordValue(RawResults[1])
    /\ heatmapJsData.max = RecordValue(RawResults[1])

\* C14 second case: nothing is emitted and max is 0
C14_NothingEmitted ==
    /\ Len(RawResults) > 0
    /\ heatmapJsData.data = <<>>
    /\ heatmapJsData.max = 0

----------------------------------------------------------------------------
(* Properties of the viewport range, checked under SpecViewport.           *)

\* the accuracy in use, as a fraction
Accuracy == ViewportAccuracy(heatmapFilters)

\* windowWidth * (1 - accuracy), as a fraction over Accuracy.den
ClaimedExtraPixels == Fraction(windowWidth * (Accuracy.den - Accuracy.num), Accuracy.den)

SameNumber(a, b) == a.num * b.den = b.num * a.den

\* x is the integer nearest to the fraction f, halves upwards
RoundOf(x, f) == 2 * f.den * x <= 2 * f.num + f.den /\ 2 * f.num + f.den < 2 * f.den * (x + 1)

Positive(f) == IF f.num < 0 THEN Fraction(0, 1) ELSE f

\* C15: extraPixels = windowWidth * (1 - accuracy), min = round(max(0,
\* windowWidth - extraPixels)), max = round(windowWidth + extraPixels); 1000
\* at 0.9 gives 900 and 1100, 1000 at 0.2 gives 200 and 1800; an unset
\* accuracy is 0.2.
C15_ViewportRangeFormula ==
    /\ SameNumber(ExtraPixels(heatmapFilters, windowWidth), ClaimedExtraPixels)
    /\ RoundOf(viewportRange.min,
               Positive(Fraction(windowWidth * Accuracy.den - ClaimedExtraPixels.num,
                                 Accuracy.den)))
    /\ RoundOf(viewportRange.max,
               Fraction(windowWidth * Accuracy.den + ClaimedExtraPixels.num, Accuracy.den))
    /\ heatmapFilters.viewportAccuracy.undefined => Accuracy = Fraction(1, 5)
    /\ (windowWidth = 1000 /\ heatmapFilters.viewportAccuracy = Fraction(9, 10))
         => viewportRange = [min |-> 900, max |-> 1100]
    /\ (windowWidth = 1000 /\ SameNumber(Accuracy, Fraction(1, 5)))
         => viewportRange = [min |-> 200, max |-> 1800]

\* C15 witness: width 1000 with the accuracy unset, after a resize
C15_Witness ==
    /\ windowWidth = 1000
    /\ heatmapFilters.viewportAccuracy.undefined
    /\ viewportRange = [min |-> 200, max |-> 1800]

\* C15, a width and an accuracy at which both ends are rounded
C15_Rounded ==
    /\ windowWidth = 1000
    /\ heatmapFilters.viewportAccuracy = Fraction(1, 3)
    /\ viewportRange = [min |-> 333, max |-> 1667]

----------------------------------------------------------------------------
(* Properties of the debounced listeners, checked under SpecDebounce.      *)

\* everything but the suspended invocations and the outside effects
stateButWaiting ==
    <<href, matchLinksByHref, elementStats, cache, elements, lastRun, clickmapsEnabled,
      rawHeatmap, heatmapScrollY, windowWidth, heatmapFixedPositionMode, wildcardHref,
      commonFilters, heatmapFilters, heatmapEnabled, canLoadMoreElementStats, inFlight,
      burst, heatmapFrom>>

\* invocation i of maybeLoadHeatmap wakes in this step
MaybeLoadHeatmapWakes(i) ==
    /\ waiting[i].listener = "maybeLoadHeatmap"
    /\ waiting' = Without(waiting, i)

\* maybeLoadHeatmap was invoked again while invocation i was suspended
InvokedAgain(i) ==
    \/ ~waiting[i].latest
    \/ \E k \in (i + 1)..Len(waiting) : waiting[k].listener = waiting[i].listener

HeatmapRequests(log) == SelectSeq(log, LAMBDA e : e.kind = "request" /\ e.pipeline = "heatmap")

\* C16: a maybeLoadHeatmap that was invoked again before its delay elapsed
\* wakes without dispatching anything and without changing any state; the
\* invocation that was not superseded makes exactly one request, when the
\* heatmap is enabled and the filters are enabled with a type.
C16_SupersededLoadIsCancelled ==
    [][\A i \in 1..Len(waiting) :
          MaybeLoadHeatmapWakes(i) =>
             /\ InvokedAgain(i) => (effects' = <<>> /\ UNCHANGED stateButWaiting)
             /\ (/\ ~InvokedAgain(i)
                 /\ heatmapEnabled
                 /\ heatmapFilters.enabled
                 /\ heatmapFilters.type # "undefined")
                  => /\ Len(HeatmapRequests(effects')) = 1
                     /\ Len(effects') = 1
                     /\ Len(inFlight') = Len(inFlight) + 1]_vars

\* C16 witness: the second invocation has made its request (the only one of
\* the burst) while the first, superseded, is still suspended
C16_Witness ==
    /\ Len(HeatmapRequests(effects)) = 1
    /\ burst.active
    /\ burst.requests = 1
    /\ \E i \in 1..Len(waiting) :
         waiting[i].listener = "maybeLoadHeatmap" /\ ~waiting[i].latest

\* C17 (as claimed): a burst of triggers, each arriving while the invocation
\* made for the previous one is still suspended, makes a single heatmap
\* request.
C17_BurstMakesOneRequest == burst.active => burst.requests <= 1

----------------------------------------------------------------------------
(* Properties of the loaders, checked under SpecLoaders.                   *)

\* the response to request i arrives in this step
Answered(i, pipeline) ==
    /\ inFlight[i].pipeline = pipeline
    /\ inFlight' = Without(inFlight, i)

\* C18 (as claimed): the response to a getElementStats that is no longer
\* the latest changes no state and has no side effect.
C18_StaleStatsDiscarded ==
    [][\A i \in 1..Len(inFlight) :
          (Answered(i, "elementStats") /\ ~inFlight[i].latest) =>
             /\ effects' = <<>>
             /\ UNCHANGED <<elementStats, canLoadMoreElementStats, heatmapEnabled,
                            rawHeatmap, waiting>>]_vars

\* C19 (as claimed): rawHeatmap never holds the response of a loadHeatmap
\* that was no longer the latest when its response arrived.
C19_StaleHeatmapDiscarded == heatmapFrom # "stale"

\* the calls of toolbarConfigLogic.actions.authenticate() in a step
Authentications(log) == Len(SelectSeq(log, LAMBDA e : e.kind = "authenticate"))

\* the responses with status 403
ForbiddenOf(responses) == {r \in responses : r.status = 403}

\* C20: a 403 from either endpoint calls authenticate exactly once; the
\* element stats hold no event more than before (they are the empty page
\* after a 403 of their endpoint) and rawHeatmap is unchanged.
C20_ForbiddenAuthenticatesOnce ==
    [][\A i \in 1..Len(inFlight) :
          (inFlight' = Without(inFlight, i)) =>
             /\ \A r \in ForbiddenOf(StatsResponses) :
                   ElementStatsResponse(i, r.status, r.body) =>
                       /\ Authentications(effects') = 1
                       /\ elementStats' = emptyElementsStatsPages
                       /\ rawHeatmap' = rawHeatmap
             /\ \A r \in ForbiddenOf(HeatmapResponses) :
                   HeatmapResponse(i, r.status, r.body) =>
                       /\ Authentications(effects') = 1
                       /\ elementStats' = elementStats
                       /\ rawHeatmap' = rawHeatmap]_vars

\* C20 witness: authenticate has just been called once, the heatmap records
\* loaded before are still there and the element stats are the empty page
C20_Witness ==
    /\ Authentications(effects) = 1
    /\ ~rawHeatmap.isNull
    /\ rawHeatmap.results # <<>>
    /\ elementStats = emptyElementsStatsPages

----------------------------------------------------------------------------
(* Properties of the loaders on errors, checked under SpecLoaders.         *)

\* the Success and Failure actions dispatched in a step, in order
Completions(log) == SelectSeq(log, LAMBDA e : e.kind \notin {"request", "authenticate", "capture"})

StatsSucceeded == <<Completed("getElementStatsSuccess", "elementStats")>>
StatsFailed == <<Completed("getElementStatsFailure", "elementStats")>>
HeatmapFailed == <<Completed("loadHeatmapFailure", "heatmap")>>

\* C21: a 403 of the element-stats endpoint ends getElementStats in
\* getElementStatsSuccess with the empty page; no getElementStatsFailure is
\* dispatched and heatmapEnabled keeps its value.
C21_ForbiddenStatsIsSuccess ==
    [][\A i \in 1..Len(inFlight) :
          (inFlight' = Without(inFlight, i)) =>
             \A r \in ForbiddenOf(StatsResponses) :
                ElementStatsResponse(i, r.status, r.body) =>
                    /\ Completions(effects') = StatsSucceeded
                    /\ elementStats' = emptyElementsStatsPages
                    /\ heatmapEnabled' = heatmapEnabled]_vars

\* C21 witness: the element-stats endpoint has answered 403 while the
\* heatmap was enabled, and it still is
C21_Witness ==
    /\ effects = <<Authenticate>> \o StatsSucceeded
    /\ elementStats = emptyElementsStatsPages
    /\ heatmapEnabled

\* the filters of the state
filterVars == <<commonFilters, heatmapFilters>>

\* C22 (as claimed): after a 403 of either endpoint heatmapEnabled is false
\* and the accumulated element stats, rawHeatmap and the filters are what
\* they were.
C22_ForbiddenResetsEnabledOnly ==
    [][\A i \in 1..Len(inFlight) :
          (inFlight' = Without(inFlight, i)) =>
             /\ \A r \in ForbiddenOf(StatsResponses) :
                   ElementStatsResponse(i, r.status, r.body) =>
                       /\ heatmapEnabled' = FALSE
                       /\ UNCHANGED <<elementStats, rawHeatmap, filterVars>>
             /\ \A r \in ForbiddenOf(HeatmapResponses) :
                   HeatmapResponse(i, r.status, r.body) =>
                       /\ heatmapEnabled' = FALSE
                       /\ UNCHANGED <<elementStats, rawHeatmap, filterVars>>]_vars

\* the responses that are not a 403 and whose JSON body has no results array
MalformedOf(responses) == {r \in responses : r.status # 403 /\ r.body.kind = "noResults"}

\* getElementStatsFailure, the accumulated stats kept, canLoadMore true
HardFailure ==
    /\ Completions(effects') = StatsFailed
    /\ elementStats' = elementStats
    /\ canLoadMoreElementStats'

\* C23 (as claimed): every non-403 element-stats response whose body has no
\* results array ends in getElementStatsFailure, keeps the accumulated
\* results and leaves canLoadMoreElementStats true.
C23_MalformedIsHardFailure ==
    [][\A i \in 1..Len(inFlight) :
          (inFlight' = Without(inFlight, i)) =>
             \A r \in MalformedOf(StatsResponses) :
                ElementStatsResponse(i, r.status, r.body) => HardFailure]_vars

\* C23 (amended): such a response is a hard failure when its request is
\* still the latest getElementStats; when the loader has been dispatched
\* again it is dropped at breakpoint() and nothing is dispatched or changed.
C23_LatestMalformedIsHardFailure ==
    [][\A i \in 1..Len(inFlight) :
          (inFlight' = Without(inFlight, i)) =>
             \A r \in MalformedOf(StatsResponses) :
                ElementStatsResponse(i, r.status, r.body) =>
                    IF inFlight[i].latest
                    THEN HardFailure
                    ELSE /\ effects' = <<>>
                         /\ UNCHANGED <<elementStats, canLoadMoreElementStats,
                                        heatmapEnabled>>]_vars

\* C23 witness: a failure has been dispatched over a page that had no next
\* page; the page is kept and more can be loaded again
C23_Witness ==
    /\ effects = StatsFailed
    /\ elementStats.results # <<>>
    /\ elementStats.next = "null"
    /\ canLoadMoreElementStats

\* the responses with another status than 200
NotOkOf(responses) == {r \in responses : r.status # 200}

\* C24: every heatmap response with a status other than 200 ends loadHeatmap
\* in loadHeatmapFailure and leaves rawHeatmap as it was; on a 403
\* authenticate is called first.
C24_NotOkHeatmapIsHardFailure ==
    [][\A i \in 1..Len(inFlight) :
          (inFlight' = Without(inFlight, i)) =>
             \A r \in NotOkOf(HeatmapResponses) :
                HeatmapResponse(i, r.status, r.body) =>
                    /\ rawHeatmap' = rawHeatmap
                    /\ effects' = IF r.status = 403
                                  THEN <<Authenticate>> \o HeatmapFailed
                                  ELSE HeatmapFailed]_vars

\* C24 witness: a 403 of the heatmap endpoint over records loaded before
C24_Witness ==
    /\ effects = <<Authenticate>> \o HeatmapFailed
    /\ rawHeatmap.results # <<>>

----------------------------------------------------------------------------
(* Properties of a change of heatmap type, checked under SpecFilters.      *)

\* C25 (as claimed): whenever the type in heatmapFilters changes, by
\* setHeatmapFilters or by patchHeatmapFilters, rawHeatmap holds no results
\* after the change.
C25_TypeChangeClears ==
    [][heatmapFilters'.type # heatmapFilters.type => rawHeatmap'.results = <<>>]_vars

\* patchHeatmapFilters with a type does clear rawHeatmap
C25_PatchedTypeClears ==
    [][\A filters \in TypePatches \ {Patch("type", TRUE, "undefined", UndefinedNumber)},
          subscriptionFirst \in BOOLEAN :
            patchHeatmapFilters(filters, subscriptionFirst) =>
                rawHeatmap' = [isNull |-> FALSE, results |-> <<>>]]_vars

----------------------------------------------------------------------------
(* Liveness of the reload, checked under SpecReload.                       *)

\* the parameters the spec gives the heatmap request, from the state
ParamsOfState ==
    [type |-> heatmapFilters.type,
     date_from |-> commonFilters.date_from,
     date_to |-> commonFilters.date_to,
     url_exact |-> IF wildcardHref = href THEN href ELSE "undefined",
     url_pattern |-> IF wildcardHref = href THEN "undefined" ELSE wildcardHref,
     viewport_width_min |-> viewportRange.min,
     viewport_width_max |-> viewportRange.max,
     aggregation |-> heatmapFilters.aggregation]

\* a reload of the heatmap is due: the heatmap and the filters are enabled
\* with a type, and an invocation made for a change is suspended and not
\* superseded
ReloadPending ==
    /\ heatmapEnabled
    /\ heatmapFilters.enabled
    /\ heatmapFilters.type # "undefined"
    /\ \E i \in 1..Len(waiting) :
          /\ waiting[i].latest
          /\ waiting[i].listener \in {"loadAllEnabled", "maybeLoadHeatmap"}

\* the heatmap has just been requested with the parameters of the state
RequestedForState == effects = <<RequestSent("heatmap", "default", ParamsOfState)>>

\* C26: while the heatmap is enabled and the filters are enabled with a
\* type, every change of the viewport range, of href or wildcardHref, or of
\* the date filters is eventually followed by a heatmap request with the
\* parameters of the state then current (the state after the last change).
C26_ChangeIsFollowedByRequest == ReloadPending ~> RequestedForState

\* C26 witness: the heatmap is requested for the page, the dates and the
\* window that the changes have led to
C26_Witness ==
    /\ RequestedForState
    /\ href # "/a"
    /\ commonFilters = LastWeek
    /\ windowWidth = 1200

----------------------------------------------------------------------------
(* Properties of the pagination, checked under SpecLoaders.                *)

\* the responses that carry a page: not a 403, a JSON body with results
PagesOf(responses) == {r \in responses : r.status # 403 /\ r.body.kind = "page"}

\* C27: a page answered to the latest getElementStats is appended: the
\* results are those held just before followed by the page's, next and
\* previous are the page's, whether the request was a first page or a
\* continuation; the results only get fewer by resetElementStats
\* (disableHeatmap) or by a 403.
C27_PagesAccumulate ==
    [][/\ \A i \in 1..Len(inFlight) :
            (inFlight' = Without(inFlight, i) /\ inFlight[i].latest) =>
               \A r \in PagesOf(StatsResponses) :
                  ElementStatsResponse(i, r.status, r.body) =>
                      /\ Completions(effects') = StatsSucceeded
                      /\ elementStats'.results = elementStats.results \o r.body.results
                      /\ elementStats'.next = r.body.next
                      /\ elementStats'.previous = r.body.previous
       /\ Len(elementStats'.results) < Len(elementStats.results) =>
              \/ Authentications(effects') = 1
              \/ effects' = <<Captured(FALSE)>>]_vars

\* C27 witness: two pages with different events have been accumulated, the
\* second just now
C27_Witness ==
    /\ effects = StatsSucceeded
    /\ Len(elementStats.results) = 2
    /\ elementStats.results[1] # elementStats.results[2]

\* the accumulated page holds a continuation token
HoldsToken ==
    /\ ~elementStats.isNull
    /\ elementStats.next # "null"
    /\ elementStats.next # "undefined"
    /\ elementStats.next # ""

\* C28: loadMoreElementStats requests the element stats exactly when the
\* accumulated page holds a continuation token, at that token used as
\* provided; without a token it requests nothing and changes no state.
C28_LoadMoreFollowsToken ==
    [][loadMoreElementStats =>
          IF HoldsToken
          THEN effects' = <<RequestSent("elementStats", elementStats.next, NoParams)>>
          ELSE effects' = <<>> /\ UNCHANGED <<stateButWaiting, waiting>>]_vars

\* C28 witness: the next page has just been requested at the token
C28_Witness ==
    /\ elementStats.next = "/next"
    /\ effects = <<RequestSent("elementStats", "/next", NoParams)>>

----------------------------------------------------------------------------
(* Properties of permanentlyMount, checked under SpecMount.                *)

\* the logic has been mounted for the first time
MountedOnce(l) == afterMountFnRuns[l] > 0

\* C29: once a logic built with permanentlyMount has been mounted, its
\* mount count never returns to 0 under mounts and matching unmounts of its
\* users: it is one more than the users holding a mount.  The extra mount
\* is made on the first afterMount and never again, and afterMountFn runs
\* on every afterMount.
C29_StaysMounted ==
    /\ [](\A l \in Logics :
            MountedOnce(l) =>
               /\ counter[l] >= 1
               /\ counter[l] = Cardinality(holders[l]) + 1
               /\ permanentMount[l])
    /\ [][\A l \in Logics :
            /\ permanentMount[l] => (permanentMount'[l] /\ counter'[l] <= counter[l] + 1)
            /\ (counter[l] = 0 /\ counter'[l] > 0) =>
                   /\ afterMountFnRuns'[l] = afterMountFnRuns[l] + 1
                   /\ counter'[l] = 2]_vars

\* C29 witness: every user of a logic has unmounted it and it is still
\* mounted, once
C29_Witness ==
    \E l \in Logics :
        /\ MountedOnce(l)
        /\ holders[l] = {}
        /\ counter[l] = 1

----------------------------------------------------------------------------
(* The backoff of the Selector Resolver, checked under SpecResolver.       *)

\* the combined selector tried at index j - 1 of event k matched nothing and
\* the loop went on to index j
FailedInside(k, j) ==
    /\ j < Len(lastRun[k].tried)
    /\ ~InvalidSelector(lastRun[k].tried[j])
    /\ Len(LiveMatches(lastRun[k].tried[j])) = 0

\* the next combined selector is `<next ancestor> > * > <chain before>`
BackedOff(k, j) ==
    lastRun[k].tried[j + 1] =
        <<SelectorAt(Results[k], j, matchLinksByHref), Star>> \o Tail(lastRun[k].tried[j])

\* C30 (as claimed): whenever the combined selector of an element that is not
\* the outermost matches nothing, the next combined selector is the next
\* ancestor's selector, a wildcard for the failed element, and the chain
\* before it; at every index, the innermost included.
C30_ZeroMatchesWiden ==
    \A k \in 1..Len(lastRun) :
        \A j \in 1..Len(lastRun[k].tried) : FailedInside(k, j) => BackedOff(k, j)

\* above the innermost element the failed selector is replaced by a wildcard
C30_ZeroMatchesWidenAboveInnermost ==
    \A k \in 1..Len(lastRun) :
        \A j \in 2..Len(lastRun[k].tried) : FailedInside(k, j) => BackedOff(k, j)

----------------------------------------------------------------------------
(* The selector memo of the Selector Resolver, checked under SpecMemo.     *)

ElementsOf(s) == {s[j] : j \in 1..Len(s)}

NoRepeats(s) == \A a, b \in 1..Len(s) : a # b => s[a] # s[b]

\* the combined selectors looked up by a run
TriedIn(run) == Flatten([k \in 1..Len(run) |-> run[k].tried])

ValidOnly(s) == LET Valid(sel) == ~InvalidSelector(sel) IN SelectSeq(s, Valid)

\* after a run the cache belongs to the href of the run: the page elements
\* and every stored result are those of the document of that href
CacheIsOfHref ==
    /\ cache'.lastHref = href'
    /\ cache'.pageElements = CollectAllElementsDeep(href')
    /\ \A sel \in DOMAIN cache'.selectorToElements :
         cache'.selectorToElements[sel] =
             QuerySelectorAllDeep(sel, CollectAllElementsDeep(href'))

\* a run on another href starts from an empty table: every lookup is a
\* query; queried lists the selectors handed to querySelectorAllDeep
DiscardedOnChange(queried) ==
    href' # cache.lastHref =>
        /\ ElementsOf(queried) = ElementsOf(TriedIn(lastRun'))
        /\ DOMAIN cache'.selectorToElements \subseteq ElementsOf(queried)

\* a run on the same href keeps every stored result and queries only what
\* is not stored
ReusedWhileSame(queried) ==
    href' = cache.lastHref =>
        /\ \A sel \in DOMAIN cache.selectorToElements :
             /\ sel \in DOMAIN cache'.selectorToElements
             /\ cache'.selectorToElements[sel] = cache.selectorToElements[sel]
        /\ ElementsOf(queried) \cap DOMAIN cache.selectorToElements = {}
        /\ ElementsOf(ValidOnly(queried)) \subseteq DOMAIN cache'.selectorToElements

\* the step evaluates the selector: run is its evaluation from the cache
\* the step started with
MemoPerHref(run) ==
    /\ lastRun' = run.perEvent
    /\ cache' = run.cache
    /\ CacheIsOfHref
    /\ DiscardedOnChange(run.queried)
    /\ ReusedWhileSame(run.queried)

\* C31 (as claimed): a run on a different href discards the memo and the page
\* elements before any lookup, so no lookup is answered from another href's
\* entry; while the href is unchanged each combined selector is queried
\* against the document at most once and later lookups reuse the stored
\* result.
C31_MemoPerHrefQueriedOnce ==
    [][\A run \in {ElementsSelector(elementStats', href', matchLinksByHref', cache)} :
         MemoPerHref(run) /\ NoRepeats(run.queried)]_vars

\* C31 (amended): the same, for the combined selectors whose query returns; a
\* query that throws stores nothing and is made again at the next lookup.
C31_MemoPerHrefReturningQueriedOnce ==
    [][\A run \in {ElementsSelector(elementStats', href', matchLinksByHref', cache)} :
         MemoPerHref(run) /\ NoRepeats(ValidOnly(run.queried))]_vars

\* C31 witness: two events of a run looked up the same combined selector,
\* and the table holds an empty result for it
C31_Witness ==
    \E k, m \in 1..Len(lastRun) :
        /\ k < m
        /\ \E j \in 1..Len(lastRun[k].tried) : \E n \in 1..Len(lastRun[m].tried) :
             /\ lastRun[k].tried[j] = lastRun[m].tried[n]
             /\ lastRun[k].tried[j] \in DOMAIN cache.selectorToElements
             /\ cache.selectorToElements[lastRun[k].tried[j]] = <<>>

----------------------------------------------------------------------------
(* Scroll polling and the lifecycle of heatmapLogic, checked under         *)
(* SpecLifecycle.                                                          *)

\* everything but the record of what the last step dispatched
stateButEffects ==
    <<restVars, heatmapScrollY, shiftPressed, waiting, burst, lifecycleVars>>

ScrollYDispatched == effects' = DispatchedAction("setHeatmapScrollY")

\* C32: at a timer tick setHeatmapScrollY is dispatched exactly when the
\* polled offset (0 when there is no provider) differs from heatmapScrollY;
\* after the tick heatmapScrollY is the polled offset; a tick that polls the
\* stored offset changes no state.
C32_TickDispatchesOnlyOnChange ==
    [][\A t \in 1..MaxCycles, provider \in ScrollProviders :
         ScrollCheck(t, provider) =>
            /\ ScrollYDispatched <=> heatmapScrollY # PolledScrollY(provider)
            /\ heatmapScrollY' = PolledScrollY(provider)
            /\ heatmapScrollY = PolledScrollY(provider) => UNCHANGED stateButEffects]_vars

\* C32 witness: a tick has brought the stored offset back to 0
C32_Witness ==
    /\ effects = DispatchedAction("setHeatmapScrollY")
    /\ heatmapScrollY = 0
    /\ intervals # {}

\* what is registered is what the last afterMount made, and only while the
\* logic is mounted
RegisteredWhileMounted ==
    IF mountCount = 0
    THEN /\ windowListeners = [keydown |-> {}, keyup |-> {}]
         /\ intervals = {}
    ELSE /\ windowListeners = [keydown |-> {handles.keyDownListener},
                               keyup |-> {handles.keyUpListener}]
         /\ intervals = {handles.scrollCheckTimer}

AtMostOneOfEach ==
    /\ Cardinality(windowListeners.keydown) <= 1
    /\ Cardinality(windowListeners.keyup) <= 1
    /\ Cardinality(intervals) <= 1

\* C33: the key listeners and the polling timer registered by afterMount are
\* all taken away by beforeUnmount: while the logic is unmounted nothing is
\* registered and no step changes shiftPressed or heatmapScrollY, and over
\* all mount / unmount cycles at most one timer and one pair of key
\* listeners are active, only while the logic is mounted.
C33_RegisteredOnlyWhileMounted ==
    /\ [](RegisteredWhileMounted /\ AtMostOneOfEach)
    /\ [][mountCount = 0 => UNCHANGED <<shiftPressed, heatmapScrollY>>]_vars

\* C33 witness: the logic is unmounted for the second time, with shift held
\* and the page scrolled when it was
C33_Witness ==
    /\ mountCount = 0
    /\ made >= 2
    /\ shiftPressed
    /\ heatmapScrollY # 0

----------------------------------------------------------------------------
(* The heatmap results across a change of type, checked under              *)
(* SpecTypePatched.                                                        *)

\* C34 (as claimed): once the type has been changed through
\* patchHeatmapFilters, which cleared rawHeatmap, rawHeatmap holds no results
\* fetched for the previous type.  Every request of SpecTypePatched is made
\* for the initial type, so every result is one fetched for it.
C34_PreviousTypeNotWritten == heatmapFilters.type # "click" => rawHeatmap.results = <<>>

----------------------------------------------------------------------------
(* Requests and results while heatmaps are disabled, checked under         *)
(* SpecLoaders.                                                            *)

\* the requests sent in a step
RequestsIn(log) == SelectSeq(log, LAMBDA e : e.kind = "request")

\* C35 (as claimed): a request is sent to the element-stats endpoint or to
\* the heatmap endpoint only from a state in which heatmapEnabled is true.
C35_NoRequestWhileDisabled ==
    [][RequestsIn(effects') # <<>> => heatmapEnabled]_vars

\* the debounced listeners do test the flag: a wake sends a request only
\* from a state in which heatmapEnabled is true
C35_NoDebouncedRequestWhileDisabled ==
    [][(Wakes /\ RequestsIn(effects') # <<>>) => heatmapEnabled]_vars

\* the last step was disableHeatmap: the results have just been emptied
JustDisabled == effects = <<Captured(FALSE)>>

\* C36 (as claimed): the response to a getElementStats that was in flight
\* when disableHeatmap was dispatched does not add its page to the emptied
\* results.
C36_DisabledStaysEmpty ==
    [][\A i \in 1..Len(inFlight) :
          (JustDisabled /\ Answered(i, "elementStats")) => Results' = <<>>]_vars

\* C37 (as claimed): in every reachable state canLoadMoreElementStats is
\* true exactly when the accumulated page holds a continuation token, that
\* is, exactly when loadMoreElementStats would send a request.
C37_CanLoadMoreIffToken == canLoadMoreElementStats <=> HasNext(elementStats)

\* one direction holds: whenever a token is held, canLoadMoreElementStats is
\* true
C37_TokenImpliesCanLoadMore == HasNext(elementStats) => canLoadMoreElementStats

----------------------------------------------------------------------------
(* An innermost selector that matches nothing, checked under SpecResolver. *)

\* the innermost selector of event k is valid and matches no element of the
\* document
InnermostMatchesNothing(k) ==
    /\ Len(Results[k].elements) > 0
    /\ ~InvalidSelector(InnermostSelector(Results[k]))
    /\ Len(LiveMatches(InnermostSelector(Results[k]))) = 0

\* the combined selector ends in the simple selector s
EndsIn(combinedSelector, s) == combinedSelector[Len(combinedSelector)] = s

\* C38: an event whose innermost selector matches nothing never resolves:
\* every combined selector tried for it ends in the innermost selector, none
\* of them matches an element, and the event yields no element, however
\* many ancestors its path has.
C38_InnermostMissNeverResolves ==
    \A k \in 1..Len(lastRun) :
        InnermostMatchesNothing(k) =>
            /\ lastRun[k].found = <<>>
            /\ \A j \in 1..Len(lastRun[k].tried) :
                 /\ EndsIn(lastRun[k].tried[j], InnermostSelector(Results[k])[1])
                 /\ InvalidSelector(lastRun[k].tried[j])
                        \/ Len(LiveMatches(lastRun[k].tried[j])) = 0

\* C38 witness: a path of three elements, every one of them tried
C38_Witness ==
    \E k \in 1..Len(lastRun) :
        /\ InnermostMatchesNothing(k)
        /\ Len(Results[k].elements) = 3
        /\ Len(lastRun[k].tried) = 3
        /\ ~lastRun[k].threw

----------------------------------------------------------------------------
(* Bounds of the viewport range, checked under SpecViewport.               *)

\* the accuracy in use lies in [0, 1]
AccuracyInUnit == 0 <= Accuracy.num /\ Accuracy.num <= Accuracy.den

\* windowWidth - extraPixels, before Math.max(0, ...)
UnclampedMin ==
    Fraction(windowWidth * ExtraPixels(heatmapFilters, windowWidth).den
                 - ExtraPixels(heatmapFilters, windowWidth).num,
             ExtraPixels(heatmapFilters, windowWidth).den)

Distance(a, b) == IF a < b THEN b - a ELSE a - b

----------------------------------------------------------------------------
(* Purity of the Element Aggregator, checked under SpecAggregator.         *)

\* sum of the counts of the inputs that have a trimmed node
RECURSIVE SumTrimmed(_)
SumTrimmed(elems) ==
    IF elems = <<>> THEN 0
    ELSE (IF TrimElement(Head(elems).element) # NoNode THEN Head(elems).count ELSE 0)
            + SumTrimmed(Tail(elems))

\* C40: evaluating countedElements leaves the ResolvedElements as they were
\* (count and type included), so evaluating it again on them gives the same
\* entries, counts, click / rage-click splits and ranks, and the counts of
\* the output add up to the counts of the inputs that have a trimmed node.
C40_AggregatorIsPure ==
    /\ ElementsAfter(elements, TRUE) = elements
    /\ CountedElements(ElementsAfter(elements, TRUE), TRUE) = CountedElements(elements, TRUE)
    /\ SumCounts(CountedElements(elements, TRUE), 0) = SumTrimmed(elements)
    /\ clickmapsEnabled => clickCount = SumTrimmed(elements)

\* C40 witness: clickmaps are off after an evaluation that merged two inputs
\* of different type and dropped a third
C40_Witness ==
    /\ ~clickmapsEnabled
    /\ Len(elements) = 3
    /\ \E a, b, c \in 1..3 :
         /\ a < b
         /\ TrimElement(elements[a].element) # NoNode
         /\ TrimElement(elements[a].element) = TrimElement(elements[b].element)
         /\ elements[a].type # elements[b].type
         /\ TrimElement(elements[c].element) = NoNode

====
